---- MODULE Spec2Model ----
(***************************************************************************)
(* Factor computation engine of personal-investor-assistant:               *)
(* src/src/compute_factors.py and src/src/utils_stats.py.                  *)
(*                                                                         *)
(* Numbers. The code computes in IEEE doubles with NaN for "undefined".   *)
(* The model computes in exact extended rationals: a number is a pair     *)
(* <<n, d>> in lowest terms with d > 0; NaN is <<0, 0>>, +inf is <<1, 0>>  *)
(* and -inf is <<-1, 0>>.  Rounding error of doubles is outside the model. *)
(***************************************************************************)
EXTENDS Integers, Sequences, FiniteSets, TLC

VARIABLES
    prices_daily,            \* DB table prices_daily: ticker -> adj_close series in date order
    fundamentals_quarterly,  \* DB table fundamentals_quarterly: sequence of rows
    fnds_columns,            \* the columns the fundamentals table has
    weights_cfg,             \* config.yml "weights": key -> number, keys may be missing
    today,                   \* today_str(): the day of the run
    scores_daily,            \* DB table scores_daily: sequence of output rows
    snapshots,               \* parquet snapshots scores_daily_<date>: date -> rows
    err,                     \* whether the last run of main ended in an exception
    runs,                    \* the number of runs of main so far
    pc,                      \* position of a function application: "call" | "return"
    args,                    \* the arguments of the function applied
    ret                      \* its return value

vars == <<prices_daily, fundamentals_quarterly, fnds_columns, weights_cfg, today,
          scores_daily, snapshots, err, runs, pc, args, ret>>

dbvars == <<prices_daily, fundamentals_quarterly, fnds_columns, weights_cfg, today,
            scores_daily, snapshots, err, runs>>

-----------------------------------------------------------------------------
(* Exact arithmetic standing for the float arithmetic of numpy/pandas.     *)

Abs(n) == IF n < 0 THEN -n ELSE n

Sgn(n) == IF n < 0 THEN -1 ELSE IF n > 0 THEN 1 ELSE 0

RECURSIVE GCD(_, _)
GCD(a, b) == IF b = 0 THEN a ELSE GCD(b, a % b)

NaN == <<0, 0>>

Inf == <<1, 0>>

NegInf == <<-1, 0>>

\* n/d in lowest terms; n/0 is +-inf and 0/0 is NaN, as for doubles
Norm(n, d) ==
    IF d = 0 THEN <<Sgn(n), 0>>
    ELSE LET g == GCD(Abs(n), Abs(d))
             s == IF d < 0 THEN -1 ELSE 1
         IN  <<(s * n) \div g, (s * d) \div g>>

I(n) == <<n, 1>>

IsNaN(a) == a = NaN

IsInf(a) == a[2] = 0 /\ a[1] # 0

IsFinite(a) == a[2] # 0

Neg(a) == <<-a[1], a[2]>>

RAdd(a, b) ==
    IF IsNaN(a) \/ IsNaN(b) THEN NaN
    ELSE IF IsInf(a) THEN (IF IsInf(b) /\ b # a THEN NaN ELSE a)
    ELSE IF IsInf(b) THEN b
    ELSE LET g == GCD(a[2], b[2])
         IN  Norm(a[1] * (b[2] \div g) + b[1] * (a[2] \div g), (a[2] \div g) * b[2])

RSub(a, b) == RAdd(a, Neg(b))

RMul(a, b) ==
    IF IsNaN(a) \/ IsNaN(b) THEN NaN
    ELSE IF IsInf(a) \/ IsInf(b) THEN <<Sgn(a[1]) * Sgn(b[1]), 0>>
    ELSE LET g1 == GCD(Abs(a[1]), b[2])
             g2 == GCD(Abs(b[1]), a[2])
         IN  Norm((a[1] \div g1) * (b[1] \div g2), (a[2] \div g2) * (b[2] \div g1))

\* x / 0 is +-inf, 0 / 0 and inf / inf are NaN, x / inf is 0
RDiv(a, b) ==
    IF IsNaN(a) \/ IsNaN(b) THEN NaN
    ELSE IF IsInf(b) THEN (IF IsInf(a) THEN NaN ELSE I(0))
    ELSE IF IsInf(a) THEN <<a[1] * (IF b[1] < 0 THEN -1 ELSE 1), 0>>
    ELSE IF b[1] = 0 THEN <<Sgn(a[1]), 0>>
    ELSE RMul(a, <<Sgn(b[1]) * b[2], Abs(b[1])>>)

\* comparisons of doubles: every comparison with NaN is False
RLt(a, b) ==
    /\ ~IsNaN(a) /\ ~IsNaN(b)
    /\ IF IsInf(a) \/ IsInf(b)
       THEN a # b /\ (a = NegInf \/ b = Inf)
       ELSE a[1] * b[2] < b[1] * a[2]

RGt(a, b) == RLt(b, a)

RLe(a, b) == ~IsNaN(a) /\ ~IsNaN(b) /\ (a = b \/ RLt(a, b))

REq(a, b) == ~IsNaN(a) /\ ~IsNaN(b) /\ a = b

\* Series.fillna(v)
FillNa(a, v) == IF IsNaN(a) THEN v ELSE a

\* Series.replace({0: np.nan})
ZeroToNaN_Keep(a) == a

ZeroToNaN(a) == IF a = I(0) THEN NaN ELSE a

\* the sum of a sequence of numbers, by halves
RECURSIVE SumSeq(_)
SumSeq(s) ==
    IF s = <<>> THEN I(0)
    ELSE IF Len(s) = 1 THEN s[1]
    ELSE LET h == Len(s) \div 2
         IN  RAdd(SumSeq(SubSeq(s, 1, h)), SumSeq(SubSeq(s, h + 1, Len(s))))

\* the entries of s that are not NaN (Series.dropna)
DropNa(s) == SelectSeq(s, LAMBDA x : ~IsNaN(x))

\* the last n entries of s (Series.tail)
Tail_n(s, n) == IF Len(s) <= n THEN s ELSE SubSeq(s, Len(s) - n + 1, Len(s))

-----------------------------------------------------------------------------
(* Sorting: DataFrame.sort_values on one key column.                       *)

RECURSIVE InsertSorted(_, _, _)
InsertSorted(s, r, key) ==
    IF s = <<>> THEN <<r>>
    ELSE IF s[Len(s)][key] <= r[key] THEN Append(s, r)
    ELSE Append(InsertSorted(SubSeq(s, 1, Len(s) - 1), r, key), s[Len(s)])

RECURSIVE SortValues(_, _)
SortValues(s, key) ==
    IF s = <<>> THEN <<>>
    ELSE InsertSorted(SortValues(SubSeq(s, 1, Len(s) - 1), key), s[Len(s)], key)

-----------------------------------------------------------------------------
(* The fundamentals table (ingest_fundamentals_sec.py, CREATE TABLE) and    *)
(* the TTM rollup builder.                                                  *)

\* rolling_cols of _build_ttm_rollup: <<output column, source column>>
rolling_cols ==
    << <<"RevenueTTM", "Revenue">>, <<"NetIncomeTTM", "NetIncome">>,
       <<"OpCFTTM", "OperatingCF">>, <<"CapexTTM", "CapitalExpenditures">>,
       <<"GrossProfitTTM", "GrossProfit">>, <<"EBITDATTM", "EBITDA">>,
       <<"InterestExpenseTTM", "InterestExpense">> >>

passthrough_cols ==
    <<"Debt", "CashAndEquivalents", "TotalAssets", "TotalLiabilities",
      "CurrentAssets", "CurrentLiabilities", "filed", "sic", "cik", "entity_name">>

\* every column of the fundamentals table that compute reads
RequiredCols ==
    {"ticker", "fiscal_end", "SharesDiluted"}
        \cup {rolling_cols[i][2] : i \in 1..Len(rolling_cols)}
        \cup {passthrough_cols[i] : i \in 1..Len(passthrough_cols)}

\* rolling(4, ...)
RollingWindow == 4

\* rolling(..., min_periods=1)
MinPeriods == 1

\* the positions of the window that ends at position k
Window(k) == (IF k > RollingWindow THEN k - RollingWindow + 1 ELSE 1)..k

\* the defined observations of g[col] in the window ending at k, in order
Observed(g, col, k) ==
    DropNa([j \in 1..Cardinality(Window(k)) |-> g[k - Cardinality(Window(k)) + j][col]])

\* g[col].rolling(4, min_periods=1).sum() at position k
RollingSum_Window3(g, col, k) ==
    LET lo == IF k > 3 THEN k - 2 ELSE 1
        obs == DropNa([j \in 1..(k - lo + 1) |-> g[lo + j - 1][col]])
    IN  IF Len(obs) < MinPeriods THEN NaN ELSE SumSeq(obs)

RollingSum(g, col, k) ==
    LET obs == Observed(g, col, k)
    IN  IF Len(obs) < MinPeriods THEN NaN ELSE SumSeq(obs)

\* g[col].rolling(4, min_periods=1).mean() at position k
RollingMean(g, col, k) ==
    LET obs == Observed(g, col, k)
    IN  IF Len(obs) < MinPeriods THEN NaN ELSE RDiv(SumSeq(obs), I(Len(obs)))

\* one row of the rollup, before FCFTTM is added
RollupRow(g, k) ==
    [fiscal_end |-> g[k].fiscal_end,
     RevenueTTM |-> RollingSum(g, "Revenue", k),
     NetIncomeTTM |-> RollingSum(g, "NetIncome", k),
     OpCFTTM |-> RollingSum(g, "OperatingCF", k),
     CapexTTM |-> RollingSum(g, "CapitalExpenditures", k),
     GrossProfitTTM |-> RollingSum(g, "GrossProfit", k),
     EBITDATTM |-> RollingSum(g, "EBITDA", k),
     InterestExpenseTTM |-> RollingSum(g, "InterestExpense", k),
     SharesDilutedTTM |-> RollingMean(g, "SharesDiluted", k),
     Debt |-> g[k].Debt,
     CashAndEquivalents |-> g[k].CashAndEquivalents,
     TotalAssets |-> g[k].TotalAssets,
     TotalLiabilities |-> g[k].TotalLiabilities,
     CurrentAssets |-> g[k].CurrentAssets,
     CurrentLiabilities |-> g[k].CurrentLiabilities,
     filed |-> g[k].filed,
     sic |-> g[k].sic,
     cik |-> g[k].cik,
     entity_name |-> g[k].entity_name,
     ticker |-> g[k].ticker]

\* res["FCFTTM"] = res["OpCFTTM"] - res["CapexTTM"].fillna(0)
WithFCF(r) ==
    [x \in (DOMAIN r) \cup {"FCFTTM"} |->
        IF x = "FCFTTM" THEN RSub(r.OpCFTTM, FillNa(r.CapexTTM, I(0))) ELSE r[x]]

\* _build_ttm_rollup(group): the rows of one ticker, in any order
build_ttm_rollup(group) ==
    LET g == SortValues(group, "fiscal_end")
    IN  [k \in 1..Len(g) |-> WithFCF(RollupRow(g, k))]

-----------------------------------------------------------------------------
(* Inputs: quarterly records drawn from a few profiles.                     *)

Tickers == <<"AAA", "BBB">>

\* entity metadata of a ticker (extract_quarterly: cik, sic, entity_name)
SicOf(t) == IF t = "AAA" THEN "7372" ELSE "4911"

Quarter(rev, ni, sh, ocf, capex, ta, tl, cash, debt, gp, ca, cl, ebitda, ie) ==
    [Revenue |-> rev, NetIncome |-> ni, SharesDiluted |-> sh, OperatingCF |-> ocf,
     CapitalExpenditures |-> capex, TotalAssets |-> ta, TotalLiabilities |-> tl,
     CashAndEquivalents |-> cash, Debt |-> debt, GrossProfit |-> gp,
     CurrentAssets |-> ca, CurrentLiabilities |-> cl, EBITDA |-> ebitda,
     InterestExpense |-> ie]

\* a healthy quarter, a better one, and one with missing, zero and negative facts
Profiles ==
    << Quarter(I(300), I(40), I(50), I(42), I(10), I(200), I(120), I(20), I(80),
               I(120), I(60), I(40), I(70), I(5)),
       Quarter(I(325), I(52), I(48), I(55), I(12), I(210), I(118), I(25), I(75),
               I(135), I(72), I(38), I(85), I(4)),
       Quarter(NaN, I(-5), I(0), NaN, NaN, I(0), NaN, NaN, NaN,
               I(0), I(10), I(0), I(0), NaN) >>

\* the fundamentals row of ticker t for period fe with the facts of profile p
FndRow(t, fe, p) ==
    [x \in (DOMAIN Profiles[p]) \cup {"ticker", "fiscal_end", "filed", "sic", "cik", "entity_name"} |->
        CASE x = "ticker" -> t
          [] x = "fiscal_end" -> fe
          [] x = "filed" -> fe + 1
          [] x = "sic" -> SicOf(t)
          [] x = "cik" -> t
          [] x = "entity_name" -> t
          [] OTHER -> Profiles[p][x]]

Perms(n) == {f \in [1..n -> 1..n] : \A i, j \in 1..n : f[i] = f[j] => i = j}

MaxPeriods == 5

\* histories of up to MaxShuffled periods arrive in every order, longer ones
\* in fiscal_end order or reversed
MaxShuffled == 4

Orders(n) ==
    IF n <= MaxShuffled THEN Perms(n)
    ELSE {[i \in 1..n |-> i], [i \in 1..n |-> n + 1 - i]}

\* no "weights" in config.yml
NoWeights == [k \in {} |-> I(0)]

EmptyDb ==
    /\ prices_daily = [t \in {} |-> <<>>]
    /\ fundamentals_quarterly = <<>>
    /\ fnds_columns = RequiredCols
    /\ today = 1
    /\ scores_daily = <<>>
    /\ snapshots = [d \in {} |-> <<>>]
    /\ err = FALSE
    /\ runs = 0

\* --- _build_ttm_rollup applied to the records of one ticker ---------------
InitTTM ==
    /\ EmptyDb
    /\ weights_cfg = NoWeights
    /\ pc = "call"
    /\ \E n \in 1..MaxPeriods : \E order \in Orders(n) : \E prof \in [1..n -> 1..Len(Profiles)] :
          args = [group |-> [i \in 1..n |-> FndRow("AAA", order[i], prof[i])]]
    /\ ret = <<>>

CallBuildTtmRollup ==
    /\ pc = "call"
    /\ ret' = build_ttm_rollup(args.group)
    /\ pc' = "return"
    /\ UNCHANGED <<args, dbvars>>

SpecTTM == InitTTM /\ [][CallBuildTtmRollup]_vars

\* C1 -----------------------------------------------------------------------
\* the position of input row i in fiscal_end order
C1_Rank(G, i) == Cardinality({j \in 1..Len(G) : G[j].fiscal_end <= G[i].fiscal_end})

RECURSIVE C1_SumOver(_, _, _)
C1_SumOver(G, col, S) ==
    IF S = {} THEN I(0)
    ELSE LET j == CHOOSE x \in S : TRUE
         IN  RAdd(G[j][col], C1_SumOver(G, col, S \ {j}))

\* the sum of column col over the periods max(1,k-3)..k, a missing value adding
\* nothing, and undefined when every value of those periods is missing
C1_PeriodSum(G, col, k) ==
    LET S == {j \in 1..Len(G) : /\ C1_Rank(G, j) <= k
                                /\ C1_Rank(G, j) >= k - 3
                                /\ ~IsNaN(G[j][col])}
    IN  IF S = {} THEN NaN ELSE C1_SumOver(G, col, S)

\* C1: _build_ttm_rollup emits one row per input period in fiscal_end order, and
\* the TTM value of every flow quantity at the k-th period is the sum of that
\* quantity over periods max(1,k-3)..k, whatever order the input rows arrive in.
C1_TTMIsTrailingSum ==
    pc = "return" =>
        LET G == args.group IN
        /\ Len(ret) = Len(G)
        /\ \A k \in 1..(Len(ret) - 1) : ret[k].fiscal_end < ret[k + 1].fiscal_end
        /\ \A i \in 1..Len(G) :
              LET k == C1_Rank(G, i) IN
              /\ ret[k].fiscal_end = G[i].fiscal_end
              /\ \A c \in 1..Len(rolling_cols) :
                    ret[k][rolling_cols[c][1]] = C1_PeriodSum(G, rolling_cols[c][2], k)

\* a history of five periods arriving out of order whose latest TTM net income,
\* 40 + 52 + 52 + 40, leaves out the earliest period
C1_Witness ==
    /\ pc = "return"
    /\ Len(ret) = 5
    /\ args.group[1].fiscal_end = 5
    /\ args.group[5].NetIncome = I(-5)
    /\ ret[5].NetIncomeTTM = I(184)
    /\ ret[1].NetIncomeTTM = I(-5)
    /\ IsNaN(ret[1].RevenueTTM)

-----------------------------------------------------------------------------
(* Piotroski F-score (utils_stats.py).                                      *)

\* (cond).astype(int)
AsInt(b) == IF b THEN 1 ELSE 0

\* series.shift(1) at position k: the previous entry, NaN at the first
Shift_Backfill(s, k) == IF k = 1 THEN s[1] ELSE s[k - 1]

Shift(s, k) == IF k = 1 THEN NaN ELSE s[k - 1]

\* df[num] / df[den].replace({0: np.nan})
RatioCol(d, num, den) == [k \in 1..Len(d) |-> RDiv(d[k][num], ZeroToNaN(d[k][den]))]

Col(d, c) == [k \in 1..Len(d) |-> d[k][c]]

\* components["shares"]: shares <= shares.shift(1)
SharesComponent_Strict(shares, k) == AsInt(RLt(shares[k], Shift(shares, k)))

SharesComponent(shares, k) == AsInt(RLe(shares[k], Shift(shares, k)))

\* the nine components of row k of the sorted frame d, in the code's order
Components(d, k) ==
    LET roa == RatioCol(d, "NetIncomeTTM", "TotalAssets")
        accrual == [j \in 1..Len(d) |-> RSub(d[j].OpCFTTM, d[j].NetIncomeTTM)]
        leverage == RatioCol(d, "Debt", "TotalAssets")
        current_ratio == RatioCol(d, "CurrentAssets", "CurrentLiabilities")
        gross_margin == RatioCol(d, "GrossProfitTTM", "RevenueTTM")
        asset_turnover == RatioCol(d, "RevenueTTM", "TotalAssets")
        shares == Col(d, "SharesDilutedTTM")
    IN  << AsInt(RGt(roa[k], I(0))),
           AsInt(RGt(d[k].OpCFTTM, I(0))),
           AsInt(RGt(roa[k], Shift(roa, k))),
           AsInt(RGt(accrual[k], I(0))),
           AsInt(RLt(leverage[k], Shift(leverage, k))),
           AsInt(RGt(current_ratio[k], Shift(current_ratio, k))),
           AsInt(RGt(gross_margin[k], Shift(gross_margin, k))),
           AsInt(RGt(asset_turnover[k], Shift(asset_turnover, k))),
           SharesComponent(shares, k) >>

RECURSIVE SumInts(_)
SumInts(s) == IF s = <<>> THEN 0 ELSE s[Len(s)] + SumInts(SubSeq(s, 1, Len(s) - 1))

\* piotroski_f_score(df): the scores in fiscal_end order
piotroski_f_score(df) ==
    LET d == SortValues(df, "fiscal_end")
    IN  [k \in 1..Len(d) |-> SumInts(Components(d, k))]

\* --- inputs: rows of the test's fixture, a degenerate row, one cell overridden
PioRow(ni, ocf, ta, debt, ca, cl, gp, rev, sh) ==
    [NetIncomeTTM |-> ni, OpCFTTM |-> ocf, TotalAssets |-> ta, Debt |-> debt,
     CurrentAssets |-> ca, CurrentLiabilities |-> cl, GrossProfitTTM |-> gp,
     RevenueTTM |-> rev, SharesDilutedTTM |-> sh]

PioBase ==
    << PioRow(I(40), I(42), I(200), I(80), I(60), I(40), I(120), I(300), I(50)),
       PioRow(I(45), I(48), I(205), I(78), I(65), I(39), I(126), I(310), I(49)),
       PioRow(I(52), I(55), I(210), I(75), I(72), I(38), I(135), I(325), I(48)),
       PioRow(I(-5), NaN, I(0), NaN, I(10), I(0), I(0), NaN, I(0)) >>

PioCols ==
    <<"NetIncomeTTM", "OpCFTTM", "TotalAssets", "Debt", "CurrentAssets",
      "CurrentLiabilities", "GrossProfitTTM", "RevenueTTM", "SharesDilutedTTM">>

OverrideVals == {NaN, I(0), I(-1), I(1000)}

MaxRows == 3

\* row i of the frame: base row b[i] for period order[i], cell <<oi, oc>> set to ov
PioFrame(n, b, order, oi, oc, ov) ==
    [i \in 1..n |->
        [x \in (DOMAIN PioBase[1]) \cup {"fiscal_end"} |->
            IF x = "fiscal_end" THEN order[i]
            ELSE IF i = oi /\ x = PioCols[oc] THEN ov
            ELSE PioBase[b[i]][x]]]

InitPiotroski ==
    /\ EmptyDb
    /\ weights_cfg = NoWeights
    /\ pc = "call"
    /\ \E n \in 1..MaxRows : \E b \in [1..n -> 1..Len(PioBase)] :
       \E order \in {[i \in 1..n |-> i], [i \in 1..n |-> n + 1 - i]} :
       \E oi \in 0..n : \E oc \in 1..Len(PioCols) : \E ov \in OverrideVals :
          args = [df |-> PioFrame(n, b, order, oi, oc, ov)]
    /\ ret = <<>>

CallPiotroskiFScore ==
    /\ pc = "call"
    /\ ret' = piotroski_f_score(args.df)
    /\ pc' = "return"
    /\ UNCHANGED <<args, dbvars>>

SpecPiotroski == InitPiotroski /\ [][CallPiotroskiFScore]_vars

\* C2 -----------------------------------------------------------------------
\* x is a number (not missing)
C2_Def(x) == ~IsNaN(x)

\* the ratio num/den of row r is defined: neither is missing, den is not zero
C2_HasRatio(r, num, den) == C2_Def(r[num]) /\ C2_Def(r[den]) /\ r[den] # I(0)

\* num/den of row r exceeds num/den of row q, both ratios being defined
\* (the cells of the frames are integers: compared by cross-multiplication)
C2_RatioGt(r, q, num, den) ==
    /\ C2_HasRatio(r, num, den) /\ C2_HasRatio(q, num, den)
    /\ r[num][1] * q[den][1] * Sgn(r[den][1]) * Sgn(q[den][1])
         > q[num][1] * r[den][1] * Sgn(r[den][1]) * Sgn(q[den][1])

\* the rows of df that precede row i in fiscal_end order
C2_Earlier(df, i) == {j \in 1..Len(df) : df[j].fiscal_end < df[i].fiscal_end}

\* the number of the nine criteria that hold for row i of df
C2_Criteria(df, i) ==
    LET r == df[i]
        hasPrev == C2_Earlier(df, i) # {}
        p == IF hasPrev
             THEN CHOOSE j \in C2_Earlier(df, i) :
                     \A m \in C2_Earlier(df, i) : df[m].fiscal_end <= df[j].fiscal_end
             ELSE i
        q == df[p]
    IN  AsInt(C2_HasRatio(r, "NetIncomeTTM", "TotalAssets")
              /\ r.NetIncomeTTM[1] * Sgn(r.TotalAssets[1]) > 0)
      + AsInt(C2_Def(r.OpCFTTM) /\ r.OpCFTTM[1] > 0)
      + AsInt(hasPrev /\ C2_RatioGt(r, q, "NetIncomeTTM", "TotalAssets"))
      + AsInt(C2_Def(r.OpCFTTM) /\ C2_Def(r.NetIncomeTTM) /\ r.OpCFTTM[1] > r.NetIncomeTTM[1])
      + AsInt(hasPrev /\ C2_RatioGt(q, r, "Debt", "TotalAssets"))
      + AsInt(hasPrev /\ C2_RatioGt(r, q, "CurrentAssets", "CurrentLiabilities"))
      + AsInt(hasPrev /\ C2_RatioGt(r, q, "GrossProfitTTM", "RevenueTTM"))
      + AsInt(hasPrev /\ C2_RatioGt(r, q, "RevenueTTM", "TotalAssets"))
      + AsInt(hasPrev /\ C2_Def(r.SharesDilutedTTM) /\ C2_Def(q.SharesDilutedTTM)
              /\ r.SharesDilutedTTM[1] <= q.SharesDilutedTTM[1])

C2_Pos(df, i) == Cardinality(C2_Earlier(df, i)) + 1

\* C2: for every row of every rollup sequence, rows with zero or missing cells
\* included, piotroski_f_score returns an integer in 0..9 equal to the number of
\* the nine criteria that hold for the row against the row just before it in
\* fiscal_end order, a criterion with an undefined ratio counting as not held.
C2_ScoreCountsCriteria ==
    pc = "return" =>
        /\ Len(ret) = Len(args.df)
        /\ \A i \in 1..Len(args.df) :
              /\ ret[C2_Pos(args.df, i)] \in 0..9
              /\ ret[C2_Pos(args.df, i)] = C2_Criteria(args.df, i)

\* the fixture's three periods arriving latest first, the earliest with zero
\* current liabilities: the latest scores 9, the middle one 8 (its current
\* ratio has nothing defined to compare with)
C2_Witness ==
    /\ pc = "return"
    /\ Len(ret) = 3
    /\ args.df[1].fiscal_end = 3
    /\ args.df[3].CurrentLiabilities = I(0)
    /\ ret[3] = 9
    /\ ret[2] = 8

\* C3 -----------------------------------------------------------------------
C3_First(df) == CHOOSE i \in 1..Len(df) : C2_Earlier(df, i) = {}

\* C3 as stated: the earliest period's score is the number of criteria 1 (return
\* on assets > 0) and 2 (operating cash flow > 0) that hold.
C3_FirstScoreCountsTwo ==
    pc = "return" =>
        LET r == args.df[C3_First(args.df)] IN
        ret[1] = AsInt(C2_HasRatio(r, "NetIncomeTTM", "TotalAssets")
                       /\ r.NetIncomeTTM[1] * Sgn(r.TotalAssets[1]) > 0)
               + AsInt(C2_Def(r.OpCFTTM) /\ r.OpCFTTM[1] > 0)

\* C3 amended: for the earliest period every criterion that compares with a
\* prior period contributes 0, so its score is the number of the three criteria
\* that need no prior period and hold: 1 (return on assets > 0), 2 (operating
\* cash flow > 0) and 4 (operating cash flow exceeds net income).
C3_FirstScoreCountsThree ==
    pc = "return" =>
        LET r == args.df[C3_First(args.df)] IN
        ret[1] = AsInt(C2_HasRatio(r, "NetIncomeTTM", "TotalAssets")
                       /\ r.NetIncomeTTM[1] * Sgn(r.TotalAssets[1]) > 0)
               + AsInt(C2_Def(r.OpCFTTM) /\ r.OpCFTTM[1] > 0)
               + AsInt(C2_Def(r.OpCFTTM) /\ C2_Def(r.NetIncomeTTM)
                       /\ r.OpCFTTM[1] > r.NetIncomeTTM[1])

\* the fixture in order: its first period scores 3, its last 9
C3_Witness ==
    /\ pc = "return"
    /\ Len(ret) = 3
    /\ args.df[1].fiscal_end = 1
    /\ args.df[1].NetIncomeTTM = I(40)
    /\ args.df[1].OpCFTTM = I(42)
    /\ ret[1] = 3
    /\ ret[3] = 9

-----------------------------------------------------------------------------
(* Factor weights and the composite (compute, config.yml "weights").        *)

WeightKeys == <<"value", "quality", "momentum">>

\* default_weights = {"value": 0.4, "quality": 0.4, "momentum": 0.2}
default_weights == [value |-> <<2, 5>>, quality |-> <<2, 5>>, momentum |-> <<1, 5>>]

\* float(weights_cfg.get(k, default_weights[k])) for the three keys
ConfiguredWeights(cfg) ==
    [k \in DOMAIN default_weights |-> IF k \in DOMAIN cfg THEN cfg[k] ELSE default_weights[k]]

\* total_weight = sum(weights.values())
TotalWeight(w) == RAdd(RAdd(RAdd(I(0), w.value), w.quality), w.momentum)

\* the weights compute applies: lines 194-203
AppliedWeights_NoRenormalize(cfg) ==
    LET w == ConfiguredWeights(cfg)
    IN  IF RLe(TotalWeight(w), I(0)) THEN default_weights ELSE w

AppliedWeights(cfg) ==
    LET w == ConfiguredWeights(cfg)
        fallback == RLe(TotalWeight(w), I(0))
        weights == IF fallback THEN default_weights ELSE w
        total_weight == IF fallback THEN I(1) ELSE TotalWeight(w)
    IN  [k \in DOMAIN weights |-> RDiv(weights[k], total_weight)]

\* latest["Composite"] of one row: lines 205-209
Composite(weights, row) ==
    RAdd(RAdd(RMul(weights.value, row.ValueScore),
              RMul(weights.quality, row.QualityScore)),
         RMul(weights.momentum, row.MomScore))

\* --- inputs: a weights mapping with any keys missing, one row of sub-scores
WeightVals == {I(-1), I(0), I(1), I(2), <<1, 2>>}

ScoreVals == {NaN, I(-1), I(0), I(2)}

WeightConfigs ==
    UNION {[K -> WeightVals] : K \in SUBSET {WeightKeys[i] : i \in 1..Len(WeightKeys)}}

InitWeights ==
    /\ EmptyDb
    /\ weights_cfg \in WeightConfigs
    /\ pc = "call"
    /\ args \in [ValueScore : ScoreVals, QualityScore : ScoreVals, MomScore : ScoreVals]
    /\ ret = <<>>

CallComposite ==
    /\ pc = "call"
    /\ ret' = [weights |-> AppliedWeights(weights_cfg),
               Composite |-> Composite(AppliedWeights(weights_cfg), args)]
    /\ pc' = "return"
    /\ UNCHANGED <<args, dbvars>>

SpecWeights == InitWeights /\ [][CallComposite]_vars

\* C5 -----------------------------------------------------------------------
\* the configured weight of key k: the mapping's value, or the default
C5_Configured(k) == IF k \in DOMAIN weights_cfg THEN weights_cfg[k] ELSE default_weights[k]

C5_Total == RAdd(C5_Configured("value"), RAdd(C5_Configured("quality"), C5_Configured("momentum")))

\* C5: the three applied weights sum to exactly 1, each is the configured weight
\* (the default where the key is missing) divided by the configured total, and
\* when the configured total is <= 0 they are exactly 0.4 / 0.4 / 0.2.
C5_WeightsRenormalized ==
    pc = "return" =>
        /\ RAdd(ret.weights.momentum, RAdd(ret.weights.quality, ret.weights.value)) = I(1)
        /\ C5_Total[1] > 0 =>
              \A k \in DOMAIN ret.weights : RMul(ret.weights[k], C5_Total) = C5_Configured(k)
        /\ C5_Total[1] <= 0 =>
              /\ ret.weights.value = <<2, 5>>
              /\ ret.weights.quality = <<2, 5>>
              /\ ret.weights.momentum = <<1, 5>>

\* value 2 and quality 1 configured, momentum missing: total 3.2, applied
\* 0.625 / 0.3125 / 0.0625
C5_Witness ==
    /\ pc = "return"
    /\ DOMAIN weights_cfg = {"value", "quality"}
    /\ weights_cfg.value = I(2)
    /\ weights_cfg.quality = I(1)
    /\ ret.weights = [value |-> <<5, 8>>, quality |-> <<5, 16>>, momentum |-> <<1, 16>>]

\* C6 -----------------------------------------------------------------------
C6_Scores == <<args.ValueScore, args.QualityScore, args.MomScore>>

\* C6: for every configured weight triple each applied weight lies in [0,1], and
\* whenever the three sub-scores are defined the composite lies between the
\* smallest and the largest of them.
C6_CompositeIsConvex ==
    pc = "return" =>
        /\ \A k \in DOMAIN ret.weights : RLe(I(0), ret.weights[k]) /\ RLe(ret.weights[k], I(1))
        /\ (\A i \in 1..3 : ~IsNaN(C6_Scores[i])) =>
              /\ \E i \in 1..3 : RLe(C6_Scores[i], ret.Composite)
              /\ \E i \in 1..3 : RLe(ret.Composite, C6_Scores[i])

-----------------------------------------------------------------------------
(* Standardisation (utils_stats.py).  A z-score divides by a standard        *)
(* deviation, the square root of a rational: it is carried exactly as a     *)
(* triple <<n, d, r>> standing for (n/d) * sqrt(r) with r square-free        *)
(* (r = 1 for a rational); <<0, 0, 1>> is NaN.                               *)

SNaN == <<0, 0, 1>>

\* the largest t in lo..hi with t*t <= m, by bisection
RECURSIVE ISqrtIn(_, _, _)
ISqrtIn(m, lo, hi) ==
    IF lo >= hi THEN lo
    ELSE LET mid == (lo + hi + 1) \div 2
         IN  IF mid <= m \div mid THEN ISqrtIn(m, mid, hi) ELSE ISqrtIn(m, lo, mid - 1)

\* the largest s with s*s dividing m, for m > 0
SquarePart(m) ==
    LET S == {t \in 1..ISqrtIn(m, 1, m) : m % (t * t) = 0}
    IN  CHOOSE s \in S : \A t \in S : t <= s

\* c * sqrt(r) for a rational c and an integer r > 0, r made square-free
Surd(c, r) ==
    IF IsNaN(c) THEN SNaN
    ELSE IF c[1] = 0 THEN <<0, 1, 1>>
    ELSE LET sp == SquarePart(r)
             k == RMul(c, I(sp))
         IN  <<k[1], k[2], r \div (sp * sp)>>

\* np.sqrt of a rational q >= 0: sqrt(n/d) = sqrt(n) * sqrt(d) / d
SqrtQ(q) ==
    IF IsNaN(q) THEN SNaN
    ELSE IF q[1] = 0 THEN <<0, 1, 1>>
    ELSE LET sn == SquarePart(q[1])
             sd == SquarePart(q[2])
             rn == q[1] \div (sn * sn)
             rd == q[2] \div (sd * sd)
             g == GCD(rn, rd)
         IN  Surd(Norm(sn * g, q[2] \div sd), (rn \div g) * (rd \div g))

\* the product of two surds
SMul(x, y) ==
    IF x = SNaN \/ y = SNaN THEN SNaN
    ELSE LET g == GCD(x[3], y[3])
         IN  Surd(RMul(RMul(<<x[1], x[2]>>, <<y[1], y[2]>>), I(g)),
                  (x[3] \div g) * (y[3] \div g))

\* the quotient of a surd by a non-zero surd: 1 / (c sqrt r) = sqrt r / (c r)
SDiv(x, y) ==
    IF y = SNaN THEN SNaN
    ELSE SMul(x, <<y[2] * Sgn(y[1]), Abs(y[1]) * y[3], y[3]>>)

\* a rational x divided by the positive surd z
DivBySurd(x, z) == IF IsNaN(x) THEN SNaN ELSE SDiv(<<x[1], x[2], 1>>, z)

\* series.mean(skipna=True) of a sequence
Mean(s) ==
    LET obs == DropNa(s)
    IN  IF obs = <<>> THEN NaN ELSE RDiv(SumSeq(obs), I(Len(obs)))

\* the population variance of the defined entries: series.std(ddof=0) ** 2
Variance(s) ==
    LET obs == DropNa(s)
        mu == Mean(s)
    IN  IF obs = <<>> THEN NaN
        ELSE RDiv(SumSeq([i \in 1..Len(obs) |-> RMul(RSub(obs[i], mu), RSub(obs[i], mu))]),
                  I(Len(obs)))

\* zscore(series)
zscore_NoGuard(s) ==
    [i \in 1..Len(s) |-> DivBySurd(RSub(s[i], Mean(s)), SqrtQ(Variance(s)))]

zscore(s) ==
    LET var == Variance(s)
    IN  IF IsNaN(var) \/ var = I(0)
        THEN [i \in 1..Len(s) |-> <<0, 1, 1>>]
        ELSE [i \in 1..Len(s) |-> DivBySurd(RSub(s[i], Mean(s)), SqrtQ(var))]

\* the members of a set of index labels in index order
RECURSIVE SeqOf(_, _)
SeqOf(index, S) ==
    IF index = <<>> THEN <<>>
    ELSE (IF index[1] \in S THEN <<index[1]>> ELSE <<>>) \o SeqOf(SubSeq(index, 2, Len(index)), S)

\* the position of label t in the sequence of labels m
PosIn(m, t) == CHOOSE i \in 1..Len(m) : m[i] = t

\* industry_zscores(values, industries), both keyed by the labels of index:
\* every group is standardised by _zs on its own
industry_zscores_Global(index, values, industries) ==
    LET x == [i \in 1..Len(index) |-> values[index[i]]]
        z == zscore([i \in 1..Len(x) |-> FillNa(x[i], Mean(x))])
    IN  [t \in DOMAIN values |-> z[PosIn(index, t)]]

industry_zscores(index, values, industries) ==
    [t \in DOMAIN values |->
        LET members == SeqOf(index, {u \in DOMAIN values : industries[u] = industries[t]})
            x == [i \in 1..Len(members) |-> values[members[i]]]
            z == zscore([i \in 1..Len(x) |-> FillNa(x[i], Mean(x))])
        IN  z[PosIn(members, t)]]

\* --- inputs: up to NumZTickers tickers in two industries ------------------
ZIndex == <<"A", "B", "C", "D", "E">>

NumZTickers == 3

ZVals == {NaN, I(1), I(2), I(3), <<5, 2>>}

ZIndustries == {"Tech", "Utilities"}

InitIndustryZ ==
    /\ EmptyDb
    /\ weights_cfg = NoWeights
    /\ pc = "call"
    /\ \E n \in 1..NumZTickers :
       LET T == {ZIndex[i] : i \in 1..n} IN
       \E v \in [T -> ZVals] : \E ind \in [T -> ZIndustries] :
          args = [index |-> SubSeq(ZIndex, 1, n), values |-> v, industries |-> ind]
    /\ ret = <<>>

CallIndustryZscores ==
    /\ pc = "call"
    /\ ret' = industry_zscores(args.index, args.values, args.industries)
    /\ pc' = "return"
    /\ UNCHANGED <<args, dbvars>>

SpecIndustryZ == InitIndustryZ /\ [][CallIndustryZscores]_vars

\* C10 ----------------------------------------------------------------------
C10_Group(t) == {u \in DOMAIN args.values : args.industries[u] = args.industries[t]}

\* C10: a ticker that is the only member of its industry group gets exactly 0,
\* and in a group of two tickers with distinct values the smaller gets -1 and
\* the larger +1, whatever the values in the other groups are.
C10_GroupwiseZ ==
    pc = "return" =>
        \A t \in DOMAIN args.values :
            /\ C10_Group(t) = {t} => ret[t] = <<0, 1, 1>>
            /\ \A u \in C10_Group(t) :
                  (/\ C10_Group(t) = {t, u}
                   /\ ~IsNaN(args.values[t]) /\ ~IsNaN(args.values[u])
                   /\ args.values[t][1] * args.values[u][2] < args.values[u][1] * args.values[t][2])
                  => ret[t] = <<-1, 1, 1>> /\ ret[u] = <<1, 1, 1>>

\* the test's case: A 1.0 and B 2.0 in Tech, C 3.0 alone in Utilities
C10_Witness ==
    /\ pc = "return"
    /\ args.values = [A |-> I(1), B |-> I(2), C |-> I(3)]
    /\ args.industries = [A |-> "Tech", B |-> "Tech", C |-> "Utilities"]
    /\ ret = [A |-> <<-1, 1, 1>>, B |-> <<1, 1, 1>>, C |-> <<0, 1, 1>>]

-----------------------------------------------------------------------------
(* compute (compute_factors.py): the rollup, the latest period per ticker,  *)
(* the price join, the ratios, momentum and risk.  A row carries the        *)
(* columns up to line 170 and the metadata; rows are in the order of the    *)
(* upstream joins (tickers ascending).                                      *)

\* pct_change_n(g["adj_close"], 126)
Lag6 == 126

\* pct_change_n(g["adj_close"], 252)
Lag12 == 252

\* vol_30: tail(30), at least 20 observations
VolTail == 30

VolMin == 20

\* sharpe_1y: tail(252), at least 200 observations
SharpeTail == 252

SharpeMin == 200

\* np.sqrt(252)
TradingDays == 252

\* pct_change_n(prices, n)
pct_change_n_BaseOffByOne(prices, n) ==
    IF Len(prices) < n + 1 \/ prices[Len(prices) - n + 1] = I(0) THEN NaN
    ELSE RSub(RDiv(prices[Len(prices)], prices[Len(prices) - n + 1]), I(1))

pct_change_n(prices, n) ==
    IF Len(prices) < n + 1 \/ prices[Len(prices) - n] = I(0) THEN NaN
    ELSE RSub(RDiv(prices[Len(prices)], prices[Len(prices) - n]), I(1))

\* returns["ret"] of one ticker: Series.pct_change()
PctChange(p) ==
    [i \in 1..Len(p) |-> IF i = 1 THEN NaN ELSE RSub(RDiv(p[i], p[i - 1]), I(1))]

\* vol_30(series)
vol_30(series) ==
    LET tail == Tail_n(DropNa(series), VolTail)
    IN  IF Len(tail) < VolMin THEN SNaN
        ELSE SMul(SqrtQ(Variance(tail)), SqrtQ(I(TradingDays)))

\* sharpe_1y(series)
sharpe_1y(series) ==
    LET tail == Tail_n(DropNa(series), SharpeTail)
        var == Variance(tail)
        mu == Mean(tail)
    IN  IF Len(tail) < SharpeMin THEN SNaN
        ELSE IF var = I(0) \/ IsNaN(var) THEN SNaN
        ELSE SDiv(SMul(SqrtQ(I(TradingDays)), <<mu[1], mu[2], 1>>), SqrtQ(var))

\* calc_fcf_yield(fcf_ttm, price, shares)
calc_fcf_yield(fcf_ttm, price, shares) == RDiv(fcf_ttm, ZeroToNaN(RMul(price, shares)))

\* calc_ev_to_ebitda(price, shares, debt, cash, ebitda_ttm)
calc_ev_to_ebitda(price, shares, debt, cash, ebitda_ttm) ==
    RDiv(RSub(RAdd(RMul(price, shares), FillNa(debt, I(0))), FillNa(cash, I(0))),
         ZeroToNaN(ebitda_ttm))

\* calc_roic(net_income_ttm, interest_expense_ttm, total_assets, current_liabilities, cash, debt)
calc_roic(net_income_ttm, interest_expense_ttm, total_assets, current_liabilities, cash, debt) ==
    LET invested_capital ==
            RAdd(RSub(RSub(FillNa(total_assets, I(0)), FillNa(current_liabilities, I(0))),
                      FillNa(cash, I(0))),
                 FillNa(debt, I(0)))
        nopat == RAdd(FillNa(net_income_ttm, I(0)), FillNa(interest_expense_ttm, I(0)))
    IN  RDiv(nopat, ZeroToNaN(invested_capital))

\* prices.empty
PricesEmpty(prices) == \A t \in DOMAIN prices : prices[t] = <<>>

\* the ticker has a row in the price table
HasPrices(prices, t) == t \in DOMAIN prices /\ prices[t] # <<>>

\* the tickers of latest: one per ticker of the rollup, ascending; the later
\* merges are how="left" and keep every one of them
LatestTickers_InnerJoin(prices, fnds) ==
    SeqOf(Tickers, {t \in {fnds[i].ticker : i \in 1..Len(fnds)} : HasPrices(prices, t)})

LatestTickers(prices, fnds) ==
    SeqOf(Tickers, {fnds[i].ticker : i \in 1..Len(fnds)})

\* rollup.groupby("ticker").tail(1) for ticker t, with its PiotroskiF
Latest(fnds, t) ==
    LET g == SortValues(SelectSeq(fnds, LAMBDA r : r.ticker = t), "fiscal_end")
        rollup == build_ttm_rollup(g)
        scores == piotroski_f_score(rollup)
    IN  [x \in (DOMAIN rollup[Len(rollup)]) \cup {"PiotroskiF"} |->
            IF x = "PiotroskiF" THEN I(scores[Len(rollup)]) ELSE rollup[Len(rollup)][x]]

\* the ratio columns of a row l of latest with its Price: lines 114-138
Ratios(l, Price) ==
    LET EPS_TTM == RDiv(l.NetIncomeTTM, ZeroToNaN(l.SharesDilutedTTM))
    IN  [EPS_TTM |-> EPS_TTM,
         PE_TTM |-> RDiv(Price, ZeroToNaN(EPS_TTM)),
         FCFYield_TTM |-> calc_fcf_yield(l.FCFTTM, Price, l.SharesDilutedTTM),
         EVToEBITDA |-> calc_ev_to_ebitda(Price, l.SharesDilutedTTM, l.Debt,
                                          l.CashAndEquivalents, l.EBITDATTM),
         ROIC |-> calc_roic(l.NetIncomeTTM, l.InterestExpenseTTM, l.TotalAssets,
                            l.CurrentLiabilities, l.CashAndEquivalents, l.Debt),
         Leverage |-> RDiv(RSub(FillNa(l.Debt, I(0)), FillNa(l.CashAndEquivalents, I(0))),
                           ZeroToNaN(l.TotalAssets)),
         Qual_ROA |-> RDiv(l.NetIncomeTTM, ZeroToNaN(l.TotalAssets))]

\* the output row of ticker t: lines 107-170
ScoreRow(prices, fnds, t) ==
    LET l == Latest(fnds, t)
        Price == IF HasPrices(prices, t) THEN prices[t][Len(prices[t])] ELSE NaN
        r == Ratios(l, Price)
    IN  [ticker |-> t,
         Price |-> Price,
         PE_TTM |-> r.PE_TTM,
         FCFYield_TTM |-> r.FCFYield_TTM,
         EVToEBITDA |-> r.EVToEBITDA,
         ROIC |-> r.ROIC,
         Leverage |-> r.Leverage,
         Qual_ROA |-> r.Qual_ROA,
         PiotroskiF |-> l.PiotroskiF,
         Mom6m |-> IF HasPrices(prices, t) THEN pct_change_n(prices[t], Lag6) ELSE NaN,
         Mom12m |-> IF HasPrices(prices, t) THEN pct_change_n(prices[t], Lag12) ELSE NaN,
         Volatility30d |-> IF HasPrices(prices, t) THEN vol_30(PctChange(prices[t])) ELSE SNaN,
         Sharpe1y |-> IF HasPrices(prices, t) THEN sharpe_1y(PctChange(prices[t])) ELSE SNaN,
         sic |-> l.sic,
         filed |-> l.filed,
         cik |-> l.cik,
         entity_name |-> l.entity_name]

\* compute(prices, fnds), fnds having the given columns: whether it raised
\* (KeyError on a missing column) and the rows it returned
compute_NoEmptyCheck(prices, fnds, columns) ==
    IF ~(RequiredCols \subseteq columns) THEN [raised |-> TRUE, rows |-> <<>>]
    ELSE [raised |-> FALSE,
          rows |-> LET ts == LatestTickers(prices, fnds)
                   IN  [i \in 1..Len(ts) |-> ScoreRow(prices, fnds, ts[i])]]

compute_NoSchemaCheck(prices, fnds, columns) ==
    IF PricesEmpty(prices) \/ fnds = <<>> \/ ~(RequiredCols \subseteq columns)
    THEN [raised |-> FALSE, rows |-> <<>>]
    ELSE [raised |-> FALSE,
          rows |-> LET ts == LatestTickers(prices, fnds)
                   IN  [i \in 1..Len(ts) |-> ScoreRow(prices, fnds, ts[i])]]

compute(prices, fnds, columns) ==
    IF PricesEmpty(prices) \/ fnds = <<>> THEN [raised |-> FALSE, rows |-> <<>>]
    ELSE IF ~(RequiredCols \subseteq columns) THEN [raised |-> TRUE, rows |-> <<>>]
    ELSE [raised |-> FALSE,
          rows |-> LET ts == LatestTickers(prices, fnds)
                   IN  [i \in 1..Len(ts) |-> ScoreRow(prices, fnds, ts[i])]]

\* --- inputs ----------------------------------------------------------------
MaxPriceRows == 254

\* adj_close a on the first k days, c afterwards
PriceSeries(L, k, a, c) == [i \in 1..L |-> IF i <= k THEN I(a) ELSE I(c)]

\* lengths on both sides of every history threshold
PriceLens ==
    {1, VolMin, VolMin + 1, Lag6, Lag6 + 1, Lag6 + 2, SharpeMin, SharpeMin + 1,
     Lag12, Lag12 + 1, MaxPriceRows}

\* the days after which a series of L days may step: none (a flat series), the
\* base day of a lag, the day before it, and the day before the last
StepDays(L) ==
    {0} \cup ({L - Lag6, L - Lag6 - 1, L - Lag12, L - Lag12 - 1, L - 1} \cap 1..L)

PriceFamily ==
    {<<>>} \cup
    UNION {{PriceSeries(L, k, ac[1], ac[2]) : k \in StepDays(L), ac \in {<<1, 2>>, <<0, 2>>}} :
              L \in PriceLens}

\* the periods of a ticker as profiles, latest last
FndHistories == {<<>>, <<1>>, <<3>>, <<2, 3>>}

\* the rows of ticker t, arriving latest first
FndRows(t, h) == [i \in 1..Len(h) |-> FndRow(t, Len(h) + 1 - i, h[Len(h) + 1 - i])]

\* the rows of a table that has only the columns cols
WithColumns(rows, cols) ==
    [i \in 1..Len(rows) |-> [x \in (DOMAIN rows[i]) \cap cols |-> rows[i][x]]]

InitCompute ==
    /\ EmptyDb
    /\ weights_cfg = NoWeights
    /\ pc = "call"
    /\ \E pa \in PriceFamily : \E pb \in {<<>>, PriceSeries(3, 1, 1, 2)} :
       \E ha \in FndHistories : \E hb \in {<<>>, <<2, 3>>} :
       \E cols \in {RequiredCols, RequiredCols \ {"EBITDA"}} :
          args = [prices |-> [t \in {"AAA", "BBB"} |-> IF t = "AAA" THEN pa ELSE pb],
                  fnds |-> WithColumns(FndRows("BBB", hb) \o FndRows("AAA", ha), cols),
                  columns |-> cols]
    /\ ret = <<>>

CallCompute ==
    /\ pc = "call"
    /\ ret' = compute(args.prices, args.fnds, args.columns)
    /\ pc' = "return"
    /\ UNCHANGED <<args, dbvars>>

SpecCompute == InitCompute /\ [][CallCompute]_vars

\* C4 -----------------------------------------------------------------------
C4_Series(row) == args.prices[row.ticker]

\* C4: in every output row, Mom6m is undefined when the ticker has fewer than
\* 127 price rows and Mom12m when it has fewer than 253 (also with none at all);
\* with at least 127 (253) rows and a non-zero base price the value is the last
\* adjusted close over the one 126 (252) rows earlier, minus 1; a short history
\* never raises.
C4_MomentumThresholds ==
    pc = "return" =>
        /\ RequiredCols \subseteq args.columns => ~ret.raised
        /\ \A i \in 1..Len(ret.rows) :
              LET row == ret.rows[i]
                  p == C4_Series(row)
                  n == Len(p)
              IN  /\ n < 127 => row.Mom6m = NaN
                  /\ n < 253 => row.Mom12m = NaN
                  /\ (n >= 127 /\ p[n - 126][1] # 0) =>
                        /\ IsFinite(row.Mom6m)
                        /\ RMul(RAdd(row.Mom6m, I(1)), p[n - 126]) = p[n]
                  /\ (n >= 253 /\ p[n - 252][1] # 0) =>
                        /\ IsFinite(row.Mom12m)
                        /\ RMul(RAdd(row.Mom12m, I(1)), p[n - 252]) = p[n]

\* AAA has exactly 127 price rows, 1 on the first day and 2 since: Mom6m is 1
\* and Mom12m undefined; BBB has no price row and both are undefined
C4_Witness ==
    /\ pc = "return"
    /\ Len(ret.rows) = 2
    /\ Len(args.prices["AAA"]) = 127
    /\ args.prices["BBB"] = <<>>
    /\ ret.rows[1].Mom6m = I(1)
    /\ ret.rows[1].Mom12m = NaN
    /\ ret.rows[2].Mom6m = NaN
    /\ ret.rows[2].Mom12m = NaN

\* C7 -----------------------------------------------------------------------
C7_FndTickers == {args.fnds[i].ticker : i \in 1..Len(args.fnds)}

C7_NoPrice(t) == Len(args.prices[t]) = 0

C7_OneRowPerFndTicker ==
    /\ ~ret.raised
    /\ \A t \in C7_FndTickers : Cardinality({i \in 1..Len(ret.rows) : ret.rows[i].ticker = t}) = 1
    /\ \A i \in 1..Len(ret.rows) : ret.rows[i].ticker \in C7_FndTickers
    /\ \A i \in 1..Len(ret.rows) :
          C7_NoPrice(ret.rows[i].ticker) =>
              /\ ret.rows[i].Price = NaN
              /\ ret.rows[i].PE_TTM = NaN
              /\ ret.rows[i].FCFYield_TTM = NaN
              /\ ret.rows[i].EVToEBITDA = NaN
              /\ ret.rows[i].Mom6m = NaN
              /\ ret.rows[i].Mom12m = NaN
              /\ ret.rows[i].Volatility30d = SNaN
              /\ ret.rows[i].Sharpe1y = SNaN

\* C7 as stated: for every price table and (complete) fundamentals table the
\* output has exactly one row per ticker with a fundamentals record and no other
\* row, a ticker without a price row being emitted with its price-derived fields
\* undefined.
C7_EveryPriceTable ==
    (pc = "return" /\ RequiredCols \subseteq args.columns) => C7_OneRowPerFndTicker

\* C7 amended: the same, for every price table that has at least one row.
C7_NonEmptyPriceTable ==
    (/\ pc = "return"
     /\ RequiredCols \subseteq args.columns
     /\ \E t \in DOMAIN args.prices : Len(args.prices[t]) > 0)
    => C7_OneRowPerFndTicker

\* both tickers have fundamentals, only AAA has prices (253 rows): two rows,
\* BBB's with an undefined price, AAA's with a price and a defined Mom12m
C7_Witness ==
    /\ pc = "return"
    /\ C7_FndTickers = {"AAA", "BBB"}
    /\ Len(args.prices["AAA"]) = 253
    /\ C7_NoPrice("BBB")
    /\ Len(ret.rows) = 2
    /\ ret.rows[2].ticker = "BBB"
    /\ ret.rows[2].Price = NaN
    /\ IsFinite(ret.rows[2].PiotroskiF)
    /\ ret.rows[1].Price = I(2)
    /\ IsFinite(ret.rows[1].Mom12m)

\* C8 -----------------------------------------------------------------------
\* C8: when the price table has no rows or the fundamentals table has no rows,
\* compute returns zero rows and raises no exception.
C8_EmptyInputEmptyResult ==
    (/\ pc = "return"
     /\ \/ \A t \in DOMAIN args.prices : Len(args.prices[t]) = 0
        \/ Len(args.fnds) = 0)
    => ret.rows = <<>> /\ ~ret.raised

\* no price row at all, fundamentals for both tickers: an empty result
C8_Witness ==
    /\ pc = "return"
    /\ \A t \in DOMAIN args.prices : args.prices[t] = <<>>
    /\ Len(args.fnds) = 3
    /\ ret = [raised |-> FALSE, rows |-> <<>>]

-----------------------------------------------------------------------------
(* The program: the two ingestion jobs fill the tables, main computes the   *)
(* scores and persists them (snapshot file, then the scores_daily table).   *)

MaxDays == 2

MaxRuns == 3

\* what yfinance returns for the watchlist: nothing, AAA only (127 days), both
PriceFeeds ==
    { [t \in {"AAA", "BBB"} |-> <<>>],
      [t \in {"AAA", "BBB"} |-> IF t = "AAA" THEN PriceSeries(Lag6 + 1, 1, 1, 2) ELSE <<>>],
      [t \in {"AAA", "BBB"} |-> IF t = "AAA" THEN PriceSeries(3, 1, 1, 2)
                                             ELSE PriceSeries(VolMin + 1, 2, 2, 1)] }

\* what the SEC returns for the watchlist: nothing, AAA only, both
FndFeeds ==
    { <<>>, FndRows("AAA", <<1>>), FndRows("BBB", <<2, 3>>) \o FndRows("AAA", <<1, 2>>) }

\* a scores table written by an earlier run
EarlierScores ==
    compute([t \in {"AAA", "BBB"} |-> PriceSeries(3, 1, 1, 2)], FndRows("AAA", <<1>>),
            RequiredCols).rows

\* the database file before the first job: a new one, or one kept from an
\* earlier installation whose fundamentals table lacks a column
Init ==
    /\ prices_daily = [t \in {"AAA", "BBB"} |-> <<>>]
    /\ weights_cfg = NoWeights
    /\ today = 1
    /\ err = FALSE
    /\ runs = 0
    /\ pc = "idle"
    /\ args = <<>>
    /\ ret = <<>>
    /\ \/ /\ fnds_columns = RequiredCols
          /\ fundamentals_quarterly = <<>>
          /\ scores_daily = <<>>
          /\ snapshots = [d \in {} |-> <<>>]
       \/ /\ \E c \in {"EBITDA", "sic"} : fnds_columns = RequiredCols \ {c}
          /\ fundamentals_quarterly \in {<<>>, WithColumns(FndRows("AAA", <<1>>), fnds_columns)}
          /\ scores_daily = EarlierScores
          /\ snapshots = [d \in {1} |-> EarlierScores]

\* ingest_prices.main: the watchlist's rows are deleted and the download inserted
IngestPrices ==
    /\ \E feed \in PriceFeeds : prices_daily' = feed
    /\ UNCHANGED <<fundamentals_quarterly, fnds_columns, weights_cfg, today, scores_daily,
                   snapshots, err, runs, pc, args, ret>>

\* ingest_fundamentals_sec.main: the watchlist's rows are deleted, then the
\* download is inserted with SELECT *, which fails on a table of other columns
IngestFundamentals ==
    /\ \E feed \in FndFeeds :
          fundamentals_quarterly' = IF fnds_columns = RequiredCols THEN feed ELSE <<>>
    /\ UNCHANGED <<prices_daily, fnds_columns, weights_cfg, today, scores_daily,
                   snapshots, err, runs, pc, args, ret>>

\* the date of today_str() moves on
NextDay ==
    /\ today < MaxDays
    /\ today' = today + 1
    /\ UNCHANGED <<prices_daily, fundamentals_quarterly, fnds_columns, weights_cfg,
                   scores_daily, snapshots, err, runs, pc, args, ret>>

\* compute_factors.main after its call of compute
Persist_Append(scores) ==
    IF scores.raised
    THEN /\ err' = TRUE
         /\ UNCHANGED <<scores_daily, snapshots>>
    ELSE /\ err' = FALSE
         /\ snapshots' = [d \in (DOMAIN snapshots) \cup {today} |->
                             IF d = today THEN scores.rows ELSE snapshots[d]]
         /\ scores_daily' = scores_daily \o scores.rows

\* compute_factors.main after its call of compute: the snapshot file of today
\* (an empty frame is written as a file of no rows), then the scores_daily
\* table emptied and, when there are rows, refilled; an exception of compute
\* leaves main before either
Persist(scores) ==
    IF scores.raised
    THEN /\ err' = TRUE
         /\ UNCHANGED <<scores_daily, snapshots>>
    ELSE /\ err' = FALSE
         /\ snapshots' = [d \in (DOMAIN snapshots) \cup {today} |->
                             IF d = today THEN scores.rows ELSE snapshots[d]]
         /\ scores_daily' = scores.rows

\* compute_factors.main
Main ==
    /\ runs < MaxRuns
    /\ runs' = runs + 1
    /\ Persist(compute(prices_daily, fundamentals_quarterly, fnds_columns))
    /\ UNCHANGED <<prices_daily, fundamentals_quarterly, fnds_columns, weights_cfg, today,
                   pc, args, ret>>

Next == IngestPrices \/ IngestFundamentals \/ NextDay \/ Main

Spec == Init /\ [][Next]_vars

\* C9 -----------------------------------------------------------------------
\* the columns of the fundamentals table
C9_Columns ==
    {"ticker", "fiscal_end", "Revenue", "NetIncome", "SharesDiluted", "OperatingCF",
     "CapitalExpenditures", "TotalAssets", "TotalLiabilities", "CashAndEquivalents", "Debt",
     "GrossProfit", "CurrentAssets", "CurrentLiabilities", "EBITDA", "InterestExpense",
     "filed", "cik", "sic", "entity_name"}

C9_LacksColumn == \E c \in C9_Columns : c \notin fnds_columns

\* a run of main aborts with an error and leaves no output
C9_Aborts ==
    /\ err'
    /\ scores_daily' = scores_daily
    /\ snapshots' = snapshots
    /\ compute(prices_daily, fundamentals_quarterly, fnds_columns).rows = <<>>

\* C9 as stated: whenever the fundamentals table lacks a required column, a run
\* aborts with an error, compute returns no rows, and main leaves scores_daily
\* and every snapshot as they were.
C9_MissingColumnAborts ==
    [][(C9_LacksColumn /\ runs' = runs + 1) => C9_Aborts]_vars

\* C9 amended: the same, when the price table and the fundamentals table both
\* have at least one row.
C9_MissingColumnAbortsNonEmpty ==
    [][(/\ C9_LacksColumn
        /\ \E t \in DOMAIN prices_daily : Len(prices_daily[t]) > 0
        /\ Len(fundamentals_quarterly) > 0
        /\ runs' = runs + 1) => C9_Aborts]_vars

\* after a run on a fundamentals table without its EBITDA column, with price
\* and fundamentals rows present: an error, the earlier scores still in place
C9_Witness ==
    /\ runs = 1
    /\ err
    /\ "EBITDA" \notin fnds_columns
    /\ Len(fundamentals_quarterly) > 0
    /\ Len(prices_daily["AAA"]) > 0
    /\ scores_daily # <<>>
    /\ snapshots[1] = scores_daily

-----------------------------------------------------------------------------
(* winsorize(series, lower, upper): clip at two quantiles of the series.    *)

\* the numbers of s in ascending order
RECURSIVE SortNums(_)
SortNums(s) ==
    IF s = <<>> THEN <<>>
    ELSE LET rest == SortNums(SubSeq(s, 1, Len(s) - 1))
             x == s[Len(s)]
             k == Cardinality({i \in 1..Len(rest) : RLe(rest[i], x)})
         IN  SubSeq(rest, 1, k) \o <<x>> \o SubSeq(rest, k + 1, Len(rest))

\* Series.quantile(q), q = <<n, d>>: NaN skipped, linear interpolation
\* between the two order statistics around position (n - 1) q
quantile_Lower(s, q) ==
    LET obs == SortNums(DropNa(s))
        k == ((Len(obs) - 1) * q[1]) \div q[2]
    IN  IF obs = <<>> THEN NaN ELSE obs[k + 1]

quantile(s, q) ==
    LET obs == SortNums(DropNa(s))
        h == (Len(obs) - 1) * q[1]
        k == h \div q[2]
        a == obs[k + 1]
        b == obs[IF k + 2 <= Len(obs) THEN k + 2 ELSE k + 1]
    IN  IF obs = <<>> THEN NaN
        ELSE RAdd(a, RMul(RSub(b, a), Norm(h % q[2], q[2])))

\* Series.clip(lower=lo, upper=hi): NaN entries stay, a NaN bound does not clip
clip(s, lo, hi) ==
    [i \in 1..Len(s) |->
        IF IsNaN(s[i]) THEN NaN
        ELSE IF RLt(s[i], lo) THEN lo
        ELSE IF RGt(s[i], hi) THEN hi
        ELSE s[i]]

\* winsorize(series, lower, upper)
winsorize(series, lower, upper) ==
    IF series = <<>> THEN series
    ELSE clip(series, quantile(series, lower), quantile(series, upper))

\* --- inputs ----------------------------------------------------------------
MaxWLen == 4

WVals == {NaN, I(1), I(2), I(3), I(100)}

WQuantiles == {<<0, 1>>, <<1, 100>>, <<3, 4>>, <<99, 100>>, <<1, 1>>}

InitWinsorize ==
    /\ EmptyDb
    /\ weights_cfg = NoWeights
    /\ pc = "call"
    /\ \E n \in 0..MaxWLen : \E s \in [1..n -> WVals] :
       \E lower \in WQuantiles : \E upper \in WQuantiles :
          /\ lower[1] * upper[2] <= upper[1] * lower[2]
          /\ args = [series |-> s, lower |-> lower, upper |-> upper]
    /\ ret = <<>>

CallWinsorize ==
    /\ pc = "call"
    /\ ret' = winsorize(args.series, args.lower, args.upper)
    /\ pc' = "return"
    /\ UNCHANGED <<args, dbvars>>

SpecWinsorize == InitWinsorize /\ [][CallWinsorize]_vars

\* C11 ----------------------------------------------------------------------
\* the defined positions of the input
C11_Defined == {i \in 1..Len(args.series) : ~IsNaN(args.series[i])}

\* the k-th smallest defined value (k from 0), by counting
C11_OrderStat(k) ==
    LET v == CHOOSE j \in C11_Defined :
                /\ Cardinality({i \in C11_Defined : RLt(args.series[i], args.series[j])}) <= k
                /\ k < Cardinality({i \in C11_Defined : RLe(args.series[i], args.series[j])})
    IN  args.series[v]

\* the q-quantile of the defined values, interpolated between order statistics
C11_Quantile(q) ==
    LET n == Cardinality(C11_Defined)
        h == (n - 1) * q[1]
        k == h \div q[2]
        a == C11_OrderStat(k)
        b == C11_OrderStat(IF k + 1 <= n - 1 THEN k + 1 ELSE k)
    IN  <<a[1] * b[2] * q[2] + (b[1] * a[2] - a[1] * b[2]) * (h % q[2]), a[2] * b[2] * q[2]>>

\* x = y for two fractions, by cross-multiplication
C11_Same(x, y) == x[1] * y[2] = y[1] * x[2]

\* C11: for a non-empty series and lower <= upper, every value above the upper
\* quantile becomes exactly that quantile, every value below the lower quantile
\* becomes that one, every value in between is unchanged, and the maximum of the
\* result is the upper quantile of the input.
C11_ClipsAtQuantiles ==
    (pc = "return" /\ C11_Defined # {}) =>
        LET lo == C11_Quantile(args.lower)
            hi == C11_Quantile(args.upper)
        IN  /\ Len(ret) = Len(args.series)
            /\ \A i \in C11_Defined :
                  LET v == args.series[i]
                  IN  /\ IsFinite(ret[i])
                      /\ v[1] * hi[2] > hi[1] * v[2] => C11_Same(ret[i], hi)
                      /\ v[1] * lo[2] < lo[1] * v[2] => C11_Same(ret[i], lo)
                      /\ (v[1] * hi[2] <= hi[1] * v[2] /\ v[1] * lo[2] >= lo[1] * v[2])
                            => ret[i] = v
            /\ \A i \in C11_Defined : ret[i][1] * hi[2] <= hi[1] * ret[i][2]
            /\ \E i \in C11_Defined : C11_Same(ret[i], hi)

\* the test's case: [1, 2, 3, 100] at (0.0, 0.75) has its maximum clipped to 27.25
C11_Witness ==
    /\ pc = "return"
    /\ args = [series |-> <<I(1), I(2), I(3), I(100)>>, lower |-> <<0, 1>>, upper |-> <<3, 4>>]
    /\ ret = <<I(1), I(2), I(3), <<109, 4>>>>

-----------------------------------------------------------------------------
(* The ratio columns on their own: one row of latest and its Price.         *)

\* values of the columns the ratios read, missing, zero and negative included
RatioInputs ==
    [Price : {NaN, I(0), I(2)},
     NetIncomeTTM : {NaN, I(-20), I(0), I(40)},
     SharesDilutedTTM : {NaN, I(-50), I(0), I(50)},
     FCFTTM : {NaN, I(10)},
     EBITDATTM : {NaN, I(-10), I(0), I(70)},
     TotalAssets : {NaN, I(0), I(200)},
     CurrentLiabilities : {NaN, I(40), I(260)},
     CashAndEquivalents : {NaN, I(20)},
     Debt : {NaN, I(80)},
     InterestExpenseTTM : {NaN, I(5)}]

InitRatios ==
    /\ EmptyDb
    /\ weights_cfg = NoWeights
    /\ pc = "call"
    /\ args \in RatioInputs
    /\ ret = <<>>

CallRatios ==
    /\ pc = "call"
    /\ ret' = Ratios(args, args.Price)
    /\ pc' = "return"
    /\ UNCHANGED <<args, dbvars>>

SpecRatios == InitRatios /\ [][CallRatios]_vars

\* C12 ----------------------------------------------------------------------
C12_Missing(cols) == \E c \in cols : IsNaN(args[c])

C12_Negative(x) == IsFinite(x) /\ x[1] < 0

\* the denominators as the claim names them
C12_EPS == RDiv(args.NetIncomeTTM, args.SharesDilutedTTM)

C12_MarketCap == RMul(args.Price, args.SharesDilutedTTM)

C12_InvestedCapital ==
    RAdd(RSub(RSub(args.TotalAssets, args.CurrentLiabilities), args.CashAndEquivalents),
         args.Debt)

\* C12 as stated: a ratio whose denominator is negative, or built from a
\* missing quantity, is undefined (never zero, never another number).
C12_NegativeOrMissingUndefined ==
    pc = "return" =>
        /\ (C12_Negative(args.SharesDilutedTTM) \/ C12_Missing({"SharesDilutedTTM"}))
              => IsNaN(ret.EPS_TTM)
        /\ (C12_Negative(C12_EPS) \/ C12_Missing({"NetIncomeTTM", "SharesDilutedTTM"}))
              => IsNaN(ret.PE_TTM)
        /\ (C12_Negative(C12_MarketCap) \/ C12_Missing({"Price", "SharesDilutedTTM"}))
              => IsNaN(ret.FCFYield_TTM)
        /\ (C12_Negative(args.EBITDATTM) \/ C12_Missing({"EBITDATTM"}))
              => IsNaN(ret.EVToEBITDA)
        /\ (C12_Negative(C12_InvestedCapital)
            \/ C12_Missing({"TotalAssets", "CurrentLiabilities", "CashAndEquivalents", "Debt"}))
              => IsNaN(ret.ROIC)
        /\ (C12_Negative(args.TotalAssets) \/ C12_Missing({"TotalAssets"}))
              => IsNaN(ret.Leverage) /\ IsNaN(ret.Qual_ROA)

\* C16 ----------------------------------------------------------------------
C16_Zero(x) == x = I(0)

C16_NonZero(x) == IsFinite(x) /\ x[1] # 0

C16_Given(cols) == \A c \in cols : ~IsNaN(args[c])

\* TotalAssets - CurrentLiabilities - Cash + Debt, a missing term counting 0
C16_InvestedCapital ==
    RAdd(RSub(RSub(FillNa(args.TotalAssets, I(0)), FillNa(args.CurrentLiabilities, I(0))),
              FillNa(args.CashAndEquivalents, I(0))),
         FillNa(args.Debt, I(0)))

\* C16: each ratio is undefined when its own denominator is 0, no ratio is ever
\* infinite, and a ratio whose own denominator is non-zero (and whose numerator
\* is given) is a number whatever the other denominators are.
C16_ZeroGuardedIndependently ==
    pc = "return" =>
        /\ C16_Zero(args.SharesDilutedTTM) => IsNaN(ret.EPS_TTM)
        /\ C16_Zero(C12_EPS) => IsNaN(ret.PE_TTM)
        /\ C16_Zero(C12_MarketCap) => IsNaN(ret.FCFYield_TTM)
        /\ C16_Zero(args.EBITDATTM) => IsNaN(ret.EVToEBITDA)
        /\ C16_Zero(C16_InvestedCapital) => IsNaN(ret.ROIC)
        /\ C16_Zero(args.TotalAssets) => IsNaN(ret.Leverage) /\ IsNaN(ret.Qual_ROA)
        /\ \A f \in DOMAIN ret : ~IsInf(ret[f])
        /\ (C16_NonZero(args.SharesDilutedTTM) /\ C16_Given({"NetIncomeTTM"}))
              => IsFinite(ret.EPS_TTM)
        /\ (C16_NonZero(C12_EPS) /\ C16_Given({"Price"})) => IsFinite(ret.PE_TTM)
        /\ (C16_NonZero(C12_MarketCap) /\ C16_Given({"FCFTTM"})) => IsFinite(ret.FCFYield_TTM)
        /\ (C16_NonZero(args.EBITDATTM) /\ C16_Given({"Price", "SharesDilutedTTM"}))
              => IsFinite(ret.EVToEBITDA)
        /\ C16_NonZero(C16_InvestedCapital) => IsFinite(ret.ROIC)
        /\ C16_NonZero(args.TotalAssets) => IsFinite(ret.Leverage)
        /\ (C16_NonZero(args.TotalAssets) /\ C16_Given({"NetIncomeTTM"}))
              => IsFinite(ret.Qual_ROA)

\* shares are 0, so EPS, P/E and FCF yield are undefined, while EV/EBITDA,
\* ROIC, Leverage and ROA, whose denominators are not 0, are numbers
C16_Witness ==
    /\ pc = "return"
    /\ args.SharesDilutedTTM = I(0)
    /\ args.Price = I(2)
    /\ args.EBITDATTM = I(70)
    /\ args.TotalAssets = I(200)
    /\ args.NetIncomeTTM = I(40)
    /\ IsNaN(ret.EPS_TTM) /\ IsNaN(ret.PE_TTM) /\ IsNaN(ret.FCFYield_TTM)
    /\ IsFinite(ret.EVToEBITDA) /\ IsFinite(ret.ROIC)
    /\ ret.Leverage = <<3, 10>> /\ ret.Qual_ROA = <<1, 5>>

-----------------------------------------------------------------------------
(* The outputs of main over a sequence of runs.                             *)

\* C13 ----------------------------------------------------------------------
\* C13: a completed run of main leaves in scores_daily exactly the rows its
\* compute returned (none when it returned none), and nothing else writes the
\* table; so after any sequence of completed runs the table holds the rows of
\* the most recent one and no row of an earlier run.
C13_TableIsLastResult ==
    [][IF runs' = runs + 1 /\ ~err'
       THEN scores_daily' = compute(prices_daily, fundamentals_quarterly, fnds_columns).rows
       ELSE scores_daily' = scores_daily]_vars

\* on day 1 a run wrote two rows, on day 2 the second run wrote one: the table
\* holds that one row only
C13_Witness ==
    /\ runs = 2
    /\ ~err
    /\ today = 2
    /\ DOMAIN snapshots = {1, 2}
    /\ Len(snapshots[1]) = 2
    /\ Len(snapshots[2]) = 1
    /\ scores_daily = snapshots[2]

\* C14 ----------------------------------------------------------------------
\* C14 as stated: once a snapshot of a date is written, no later step changes
\* its contents, whatever the dates of the runs.
C14_SnapshotsImmutable ==
    [][\A d \in DOMAIN snapshots : d \in DOMAIN snapshots' /\ snapshots'[d] = snapshots[d]]_vars

-----------------------------------------------------------------------------
(* The final ordering: latest[cols].sort_values("Composite", ascending=False) *)
(* with the default kind="quicksort", which is not a stable sort: rows with  *)
(* equal Composite come out in an order the build and the size decide. Rows *)
(* with an undefined Composite go last, in their upstream order.            *)

\* the orders sort_values may return for the rows of latest
sort_values_Composite(latest) ==
    {[i \in 1..Len(latest) |-> latest[p[i]]] : p \in
        {q \in Perms(Len(latest)) :
            \A i, j \in 1..Len(latest) : i < j =>
                /\ IsNaN(latest[q[i]].Composite) => IsNaN(latest[q[j]].Composite) /\ q[i] < q[j]
                /\ ~RLt(latest[q[i]].Composite, latest[q[j]].Composite)}}

\* --- inputs ----------------------------------------------------------------
MaxSortRows == 4

SortTickers == <<"AAA", "BBB", "CCC", "DDD", "EEE">>

CompositeVals == {NaN, <<-1, 2>>, I(0), I(1)}

InitSort ==
    /\ EmptyDb
    /\ weights_cfg = NoWeights
    /\ pc = "call"
    /\ \E n \in 1..MaxSortRows : \E c \in [1..n -> CompositeVals] :
          args = [latest |-> [i \in 1..n |-> [ticker |-> SortTickers[i], Composite |-> c[i]]]]
    /\ ret = <<>>

CallSortValues ==
    /\ pc = "call"
    /\ ret' \in sort_values_Composite(args.latest)
    /\ pc' = "return"
    /\ UNCHANGED <<args, dbvars>>

SpecSort == InitSort /\ [][CallSortValues]_vars

\* C15 ----------------------------------------------------------------------
\* the upstream position of the row of ticker t
C15_Upstream(t) == CHOOSE i \in 1..Len(args.latest) : args.latest[i].ticker = t

\* C15 as stated: the rows come out by Composite descending, and rows with
\* equal Composite keep the relative order they had upstream.
C15_DescendingAndStable ==
    pc = "return" =>
        /\ \A i \in 1..(Len(ret) - 1) :
              (IsFinite(ret[i].Composite) /\ IsFinite(ret[i + 1].Composite))
                  => RLe(ret[i + 1].Composite, ret[i].Composite)
        /\ \A i, j \in 1..Len(ret) :
              (i < j /\ REq(ret[i].Composite, ret[j].Composite))
                  => C15_Upstream(ret[i].ticker) < C15_Upstream(ret[j].ticker)

-----------------------------------------------------------------------------
(* zscore(series) on its own.                                               *)

MaxZLen == 4

ZscoreVals == {NaN, Inf, I(1), I(2), <<5, 2>>}

InitZscore ==
    /\ EmptyDb
    /\ weights_cfg = NoWeights
    /\ pc = "call"
    /\ \E n \in 0..MaxZLen : \E s \in [1..n -> ZscoreVals] : args = [series |-> s]
    /\ ret = <<>>

CallZscore ==
    /\ pc = "call"
    /\ ret' = zscore(args.series)
    /\ pc' = "return"
    /\ UNCHANGED <<args, dbvars>>

SpecZscore == InitZscore /\ [][CallZscore]_vars

\* C17 ----------------------------------------------------------------------
\* the defined positions of the input
C17_Defined == {i \in 1..Len(args.series) : ~IsNaN(args.series[i])}

\* the standard deviation of the defined entries is zero or undefined: no
\* defined entry, or all of them equal, or an infinite one among them
C17_NoSpread ==
    \/ \A i, j \in C17_Defined : args.series[i] = args.series[j]
    \/ \E i \in C17_Defined : IsInf(args.series[i])

\* the square of a result entry
C17_Square(z) == RMul(RMul(<<z[1], z[2]>>, <<z[1], z[2]>>), I(z[3]))

\* the sum of f over a set of positions
RECURSIVE C17_Sum(_, _)
C17_Sum(f, S) ==
    IF S = {} THEN I(0)
    ELSE LET i == CHOOSE j \in S : TRUE IN RAdd(f[i], C17_Sum(f, S \ {i}))

\* C17: the result has the length of the input and no infinite entry; when the
\* defined entries have no spread every entry is 0; otherwise the defined
\* entries are mapped by one increasing linear map to values of mean 0 and
\* population variance 1, which is (x - mean) / std.
C17_Standardizes ==
    pc = "return" =>
        /\ Len(ret) = Len(args.series)
        /\ \A i \in 1..Len(ret) : ret[i] = SNaN \/ ret[i][2] # 0
        /\ C17_NoSpread => \A i \in 1..Len(ret) : ret[i] = <<0, 1, 1>>
        /\ ~C17_NoSpread =>
              /\ \A i \in 1..Len(ret) : (ret[i] = SNaN) <=> (i \notin C17_Defined)
              /\ \A i, j \in C17_Defined : ret[i][1] # 0 /\ ret[j][1] # 0 => ret[i][3] = ret[j][3]
              /\ C17_Sum([i \in 1..Len(ret) |-> <<ret[i][1], ret[i][2]>>], C17_Defined) = I(0)
              /\ C17_Sum([i \in 1..Len(ret) |-> C17_Square(ret[i])], C17_Defined)
                    = I(Cardinality(C17_Defined))
              /\ \A i, j \in C17_Defined :
                    RLt(args.series[i], args.series[j])
                        => RLt(<<ret[i][1], ret[i][2]>>, <<ret[j][1], ret[j][2]>>)
              /\ \A i, j, k, l \in C17_Defined :
                    RMul(RSub(<<ret[i][1], ret[i][2]>>, <<ret[j][1], ret[j][2]>>),
                         RSub(args.series[k], args.series[l]))
                    = RMul(RSub(<<ret[k][1], ret[k][2]>>, <<ret[l][1], ret[l][2]>>),
                           RSub(args.series[i], args.series[j]))

\* two equal defined entries and a missing one: standard deviation 0, so the
\* whole column, the missing entry included, is 0
C17_Witness ==
    /\ pc = "return"
    /\ args.series = <<I(2), NaN, I(2)>>
    /\ ret = <<<<0, 1, 1>>, <<0, 1, 1>>, <<0, 1, 1>>>>

\* 1 and 2 with a missing entry between: -1, undefined, +1
C17_WitnessSpread ==
    /\ pc = "return"
    /\ args.series = <<I(1), NaN, I(2)>>
    /\ ret = <<<<-1, 1, 1>>, SNaN, <<1, 1, 1>>>>

-----------------------------------------------------------------------------
(* _map_industry(sic): the industry label of a raw SIC code. A code is the  *)
(* sequence of its characters. The module industry_map (SIC_TO_INDUSTRY,    *)
(* DEFAULT) is static configuration: the lookup is checked for every table  *)
(* over a small set of keys, each key with a label of its own.              *)

\* industry_map.DEFAULT
DEFAULT == "Unclassified"

\* the keys industry_map.SIC_TO_INDUSTRY may have
IndustryKeys ==
    {<<"7", "3", "7", "2">>, <<"7", "3", "7">>, <<"7", "3">>, <<"7", "2">>, <<"7">>}

\* the label of a key
LabelOf(k) ==
    CASE k = <<"7", "3", "7", "2">> -> "Software"
      [] k = <<"7", "3", "7">> -> "IT Services"
      [] k = <<"7", "3">> -> "Business Services"
      [] k = <<"7", "2">> -> "Personal Services"
      [] OTHER -> "Services"

\* a missing sic: None, or the float nan of a column with nulls (each a
\* one-token sequence that is no text)
None == <<"None">>

FloatNaN == <<"float nan">>

\* str(sic or "")
Str(sic) ==
    IF sic = None \/ sic = <<>> THEN <<>>
    ELSE IF sic = FloatNaN THEN <<"n", "a", "n">>
    ELSE sic

\* str.strip(): without leading and trailing blanks
RECURSIVE Strip(_)
Strip(c) ==
    IF c = <<>> THEN c
    ELSE IF c[1] = " " THEN Strip(SubSeq(c, 2, Len(c)))
    ELSE IF c[Len(c)] = " " THEN Strip(SubSeq(c, 1, Len(c) - 1))
    ELSE c

\* c[:n]
Prefix(c, n) == SubSeq(c, 1, IF Len(c) < n THEN Len(c) ELSE n)

\* _map_industry(sic) with SIC_TO_INDUSTRY = table
map_industry_ShortestFirst(sic, table) ==
    LET code == Strip(Str(sic))
    IN  IF code = <<>> THEN DEFAULT
        ELSE IF code \in DOMAIN table THEN table[code]
        ELSE IF Len(code) >= 2 /\ Prefix(code, 2) \in DOMAIN table THEN table[Prefix(code, 2)]
        ELSE IF Len(code) >= 3 /\ Prefix(code, 3) \in DOMAIN table THEN table[Prefix(code, 3)]
        ELSE DEFAULT

map_industry(sic, table) ==
    LET code == Strip(Str(sic))
    IN  IF code = <<>> THEN DEFAULT
        ELSE IF code \in DOMAIN table THEN table[code]
        ELSE IF Len(code) >= 3 /\ Prefix(code, 3) \in DOMAIN table THEN table[Prefix(code, 3)]
        ELSE IF Len(code) >= 2 /\ Prefix(code, 2) \in DOMAIN table THEN table[Prefix(code, 2)]
        ELSE DEFAULT

\* --- inputs ----------------------------------------------------------------
MaxCodeLen == 4

CodeChars == {"7", "3", "2", " "}

InitMapIndustry ==
    /\ EmptyDb
    /\ weights_cfg = NoWeights
    /\ pc = "call"
    /\ \E K \in SUBSET IndustryKeys :
       \E sic \in {None, FloatNaN} \cup UNION {[1..n -> CodeChars] : n \in 0..MaxCodeLen} :
          args = [sic |-> sic, table |-> [k \in K |-> LabelOf(k)]]
    /\ ret = <<>>

CallMapIndustry ==
    /\ pc = "call"
    /\ ret' = map_industry(args.sic, args.table)
    /\ pc' = "return"
    /\ UNCHANGED <<args, dbvars>>

SpecMapIndustry == InitMapIndustry /\ [][CallMapIndustry]_vars

\* C18 ----------------------------------------------------------------------
\* the code: the raw value as text, between its first and last non-blank
\* character; empty when the value is missing or blank
C18_Code ==
    LET raw == IF args.sic = None THEN <<>>
               ELSE IF args.sic = FloatNaN THEN <<"n", "a", "n">> ELSE args.sic
        P == {i \in 1..Len(raw) : raw[i] # " "}
    IN  IF P = {} THEN <<>>
        ELSE SubSeq(raw, CHOOSE a \in P : \A i \in P : a <= i,
                         CHOOSE b \in P : \A i \in P : i <= b)

C18_Keys == DOMAIN args.table

\* the first n characters of the code are a key
C18_PrefixIsKey(n) == Len(C18_Code) >= n /\ SubSeq(C18_Code, 1, n) \in C18_Keys

\* C18: the label of the exact code if it is a key, otherwise of its first 3
\* characters if they are a key, otherwise of its first 2 characters if they
\* are a key, otherwise the default; an empty or missing code maps to the
\* default.
C18_StrictPrecedence ==
    pc = "return" =>
        LET code == C18_Code
        IN  /\ code = <<>> => ret = DEFAULT
            /\ (code # <<>> /\ code \in C18_Keys) => ret = args.table[code]
            /\ (code # <<>> /\ code \notin C18_Keys /\ C18_PrefixIsKey(3))
                  => ret = args.table[SubSeq(code, 1, 3)]
            /\ (code # <<>> /\ code \notin C18_Keys /\ ~C18_PrefixIsKey(3) /\ C18_PrefixIsKey(2))
                  => ret = args.table[SubSeq(code, 1, 2)]
            /\ (code # <<>> /\ code \notin C18_Keys /\ ~C18_PrefixIsKey(3) /\ ~C18_PrefixIsKey(2))
                  => ret = DEFAULT

\* code 7372 is no key, 737 and 73 both are: the 3-character prefix wins
C18_Witness ==
    /\ pc = "return"
    /\ args.sic = <<"7", "3", "7", "2">>
    /\ DOMAIN args.table = {<<"7", "3", "7">>, <<"7", "3">>}
    /\ ret = "IT Services"

-----------------------------------------------------------------------------
(* The Value sub-score: lines 172-177. The three standardized components    *)
(* are surds with radicands of their own, so their mean is kept as a sum    *)
(* of surds: radicand |-> coefficient, zero coefficients left out.          *)

\* np.log in units of ln 2, for a power of two (zscore and winsorize do not
\* depend on a positive unit); nan stays nan
MaxExp == 6

RECURSIVE Pow2(_)
Pow2(k) == IF k = 0 THEN 1 ELSE 2 * Pow2(k - 1)

Log(x) ==
    IF IsNaN(x) THEN NaN
    ELSE I(CHOOSE k \in (-MaxExp)..MaxExp :
                x = (IF k >= 0 THEN <<Pow2(k), 1>> ELSE <<1, Pow2(-k)>>))

\* series.where(series > 0)
WherePositive(s) == [i \in 1..Len(s) |-> IF RGt(s[i], I(0)) THEN s[i] ELSE NaN]

\* -zscore(...)
SNeg(z) == <<-z[1], z[2], z[3]>>

\* winsorize with its default bounds, then zscore
LowerDefault == <<1, 100>>

UpperDefault == <<99, 100>>

Standardize(s) == zscore(winsorize(s, LowerDefault, UpperDefault))

\* the sum of the coefficients of the surds cs[i], i in S, that have radicand r
RECURSIVE CoefSum(_, _, _)
CoefSum(cs, S, r) ==
    IF S = {} THEN I(0)
    ELSE LET i == CHOOSE j \in S : TRUE
         IN  RAdd(IF cs[i][3] = r /\ cs[i][1] # 0 THEN <<cs[i][1], cs[i][2]>> ELSE I(0),
                  CoefSum(cs, S \ {i}, r))

\* DataFrame.mean(axis=1, skipna=True) of one row of surds
RowMean_KeepNa(cs) ==
    LET D == 1..Len(cs)
        R == {r \in {cs[i][3] : i \in D} : CoefSum(cs, D, r) # I(0)}
    IN  IF \E i \in D : cs[i] = SNaN THEN [defined |-> FALSE, parts |-> <<>>]
        ELSE [defined |-> TRUE, parts |-> [r \in R |-> RDiv(CoefSum(cs, D, r), I(Len(cs)))]]

RowMean(cs) ==
    LET D == {i \in 1..Len(cs) : cs[i] # SNaN}
        R == {r \in {cs[i][3] : i \in D} : CoefSum(cs, D, r) # I(0)}
    IN  IF D = {} THEN [defined |-> FALSE, parts |-> <<>>]
        ELSE [defined |-> TRUE,
              parts |-> [r \in R |-> RDiv(CoefSum(cs, D, r), I(Cardinality(D)))]]

\* lines 172-177 on the rows of latest
ValueScoreRaw(latest) ==
    LET n == Len(latest)
        pe_positive == WherePositive([i \in 1..n |-> latest[i].PE_TTM])
        evebitda_positive == WherePositive([i \in 1..n |-> latest[i].EVToEBITDA])
        zpe == Standardize([i \in 1..n |-> Log(pe_positive[i])])
        zfcf == Standardize([i \in 1..n |-> latest[i].FCFYield_TTM])
        zev == Standardize([i \in 1..n |-> Log(evebitda_positive[i])])
    IN  [i \in 1..n |->
            [ticker |-> latest[i].ticker,
             Value_PE |-> SNeg(zpe[i]),
             Value_FCF |-> zfcf[i],
             Value_EVEBITDA |-> SNeg(zev[i]),
             ValueScore_raw |-> RowMean(<<SNeg(zpe[i]), zfcf[i], SNeg(zev[i])>>)]]

\* --- inputs ----------------------------------------------------------------
MaxUniverse == 3

\* P/E, FCF yield and EV/EBITDA of a ticker: all undefined, two cheap and dear
\* ones, a loss-maker, one without FCF
ValueProfiles ==
    {<<NaN, NaN, NaN>>,
     <<I(1), I(0), I(8)>>,
     <<I(4), <<1, 10>>, I(16)>>,
     <<I(-2), <<1, 10>>, NaN>>,
     <<I(4), NaN, I(8)>>}

InitValueScore ==
    /\ EmptyDb
    /\ weights_cfg = NoWeights
    /\ pc = "call"
    /\ \E n \in 1..MaxUniverse : \E v \in [1..n -> ValueProfiles] :
          args = [latest |-> [i \in 1..n |-> [ticker |-> SortTickers[i],
                                              PE_TTM |-> v[i][1],
                                              FCFYield_TTM |-> v[i][2],
                                              EVToEBITDA |-> v[i][3]]]]
    /\ ret = <<>>

CallValueScoreRaw ==
    /\ pc = "call"
    /\ ret' = ValueScoreRaw(args.latest)
    /\ pc' = "return"
    /\ UNCHANGED <<args, dbvars>>

SpecValueScore == InitValueScore /\ [][CallValueScoreRaw]_vars

\* C19 ----------------------------------------------------------------------
\* the three underlying metrics of row i: P/E where positive, FCF yield,
\* EV/EBITDA where positive
C19_Metrics(i) ==
    LET l == args.latest[i]
    IN  <<IF RGt(l.PE_TTM, I(0)) THEN l.PE_TTM ELSE NaN,
          l.FCFYield_TTM,
          IF RGt(l.EVToEBITDA, I(0)) THEN l.EVToEBITDA ELSE NaN>>

C19_Components(i) == <<ret[i].Value_PE, ret[i].Value_FCF, ret[i].Value_EVEBITDA>>

C19_DefinedComponents(i) == {k \in 1..3 : C19_Components(i)[k] # SNaN}

\* the coefficient of sqrt(r) in a sum of surds
C19_Coef(parts, r) == IF r \in DOMAIN parts THEN parts[r] ELSE I(0)

\* the raw Value sub-score of row i is the mean of its defined components:
\* radicand by radicand, (number defined) x raw = the sum of the components
C19_IsMeanOfDefined(i) ==
    LET cs == C19_Components(i)
        D == C19_DefinedComponents(i)
        raw == ret[i].ValueScore_raw
    IN  /\ raw.defined <=> D # {}
        /\ \A r \in {cs[k][3] : k \in D} \cup DOMAIN raw.parts :
              RMul(I(Cardinality(D)), C19_Coef(raw.parts, r)) = CoefSum(cs, D, r)

C19_AllUndefined(i) == \A k \in 1..3 : IsNaN(C19_Metrics(i)[k])

\* the column of metric k as it is standardized: winsorized, P/E and
\* EV/EBITDA in logarithms
C19_Winsorized(k) ==
    winsorize([i \in 1..Len(args.latest) |->
                  IF k = 2 THEN C19_Metrics(i)[k] ELSE Log(C19_Metrics(i)[k])],
              LowerDefault, UpperDefault)

\* metric k has spread in the universe: two rows whose winsorized values are
\* defined and differ
C19_HasSpread(k) ==
    \E i, j \in 1..Len(args.latest) :
        /\ ~IsNaN(C19_Winsorized(k)[i]) /\ ~IsNaN(C19_Winsorized(k)[j])
        /\ C19_Winsorized(k)[i] # C19_Winsorized(k)[j]

\* C19 as stated: in every universe the raw Value sub-score of every ticker is
\* the mean of its defined standardized components, and a ticker whose three
\* underlying metrics are all undefined has an undefined raw Value sub-score.
C19_AllUndefinedIsUndefined ==
    pc = "return" =>
        \A i \in 1..Len(ret) :
            /\ C19_IsMeanOfDefined(i)
            /\ C19_AllUndefined(i) => ~ret[i].ValueScore_raw.defined

\* C19 amended: the mean of the defined components in every universe; a ticker
\* whose three metrics are all undefined has an undefined raw Value sub-score
\* exactly when each of the three metrics has spread in the universe, and 0
\* otherwise (a column without spread is standardized to 0 in every row).
C19_UndefinedWhenSpread ==
    pc = "return" =>
        \A i \in 1..Len(ret) :
            /\ C19_IsMeanOfDefined(i)
            /\ C19_AllUndefined(i) =>
                  IF \A k \in 1..3 : C19_HasSpread(k)
                  THEN ~ret[i].ValueScore_raw.defined
                  ELSE ret[i].ValueScore_raw = [defined |-> TRUE, parts |-> <<>>]

\* AAA cheap, BBB dear, CCC without any metric: 1/3, -1/3 and undefined
C19_Witness ==
    /\ pc = "return"
    /\ Len(ret) = 3
    /\ C19_AllUndefined(3)
    /\ ret[1].Value_PE = <<1, 1, 1>>
    /\ ret[1].Value_FCF = <<-1, 1, 1>>
    /\ ret[1].ValueScore_raw.defined
    /\ ret[1].ValueScore_raw.parts[1] = <<1, 3>>
    /\ ret[2].ValueScore_raw.parts[1] = <<-1, 3>>
    /\ ~ret[3].ValueScore_raw.defined

-----------------------------------------------------------------------------
(* CompositePctile: latest["Composite"].rank(pct=True), with the defaults   *)
(* method="average" and na_option="keep".                                   *)

\* Series.rank(pct=True): the average of the ranks a value's ties occupy,
\* over the number of defined values; nan stays nan
rank_pct(col) ==
    LET D == {i \in 1..Len(col) : ~IsNaN(col[i])}
    IN  [i \in 1..Len(col) |->
            IF IsNaN(col[i]) THEN NaN
            ELSE LET less == Cardinality({j \in D : RLt(col[j], col[i])})
                     ties == Cardinality({j \in D : col[j] = col[i]})
                 IN  Norm(2 * less + ties + 1, 2 * Cardinality(D))]

\* --- inputs ----------------------------------------------------------------
MaxRankRows == 4

InitRank ==
    /\ EmptyDb
    /\ weights_cfg = NoWeights
    /\ pc = "call"
    /\ \E n \in 1..MaxRankRows : \E c \in [1..n -> CompositeVals] : args = [Composite |-> c]
    /\ ret = <<>>

CallRankPct ==
    /\ pc = "call"
    /\ ret' = rank_pct(args.Composite)
    /\ pc' = "return"
    /\ UNCHANGED <<args, dbvars>>

SpecRank == InitRank /\ [][CallRankPct]_vars

\* C20 ----------------------------------------------------------------------
C20_Defined == {i \in 1..Len(args.Composite) : ~IsNaN(args.Composite[i])}

C20_AtOrBelow(i) == {j \in C20_Defined : RLe(args.Composite[j], args.Composite[i])}

\* C20 as stated: for every row with a defined composite, CompositePctile is
\* the fraction of the tickers (with a defined composite) whose composite is at
\* or below the row's, and lies in [0,1], ties included.
C20_PctileIsFractionAtOrBelow ==
    pc = "return" =>
        \A i \in C20_Defined :
            /\ ret[i][1] * Cardinality(C20_Defined) = Cardinality(C20_AtOrBelow(i)) * ret[i][2]
            /\ RLe(I(0), ret[i]) /\ RLe(ret[i], I(1))

-----------------------------------------------------------------------------
(* industry_zscores in binary floating point.  pandas computes sums, means  *)
(* and variances in float64, rounding after every operation; the model      *)
(* keeps the rounding (to nearest, ties to even) with a mantissa of         *)
(* MantBits bits instead of 53 and an unbounded exponent.  The final square *)
(* root and quotient are carried unrounded: rounding maps no non-zero       *)
(* quotient to zero within the exponent range.                              *)

MantBits == 3

\* |q| = a/b scaled by powers of two until 2^(MantBits-1) <= a/b < 2^MantBits
RECURSIVE FlScale(_, _, _)
FlScale(a, b, e) ==
    IF a >= Pow2(MantBits) * b THEN FlScale(a, 2 * b, e + 1)
    ELSE IF a < Pow2(MantBits - 1) * b THEN FlScale(2 * a, b, e - 1)
    ELSE <<a, b, e>>

\* the float nearest to the rational q, ties to the even mantissa
Fl(q) ==
    IF IsNaN(q) \/ q[1] = 0 THEN q
    ELSE LET sc == FlScale(Abs(q[1]), q[2], 0)
             f == sc[1] \div sc[2]
             r == sc[1] % sc[2]
             m == IF 2 * r > sc[2] \/ (2 * r = sc[2] /\ f % 2 = 1) THEN f + 1 ELSE f
         IN  IF sc[3] >= 0 THEN Norm(Sgn(q[1]) * m * Pow2(sc[3]), 1)
             ELSE Norm(Sgn(q[1]) * m, Pow2(-sc[3]))

\* values.sum() over the first k entries, nan masked to 0, added left to right
RECURSIVE FlSum(_, _)
FlSum(s, k) ==
    IF k = 0 THEN I(0) ELSE Fl(RAdd(FlSum(s, k - 1), FillNa(s[k], I(0))))

\* series.mean(skipna=True): the sum over the count of the defined entries
FlMean(s) ==
    LET count == Len(DropNa(s))
    IN  IF count = 0 THEN NaN ELSE Fl(RDiv(FlSum(s, Len(s)), I(count)))

\* series.std(skipna=True, ddof=0) ** 2: the mean of the squared deviations
FlVar(s) ==
    LET count == Len(DropNa(s))
        avg == FlMean(s)
        sqr == [i \in 1..Len(s) |->
                   IF IsNaN(s[i]) THEN I(0)
                   ELSE LET d == Fl(RSub(avg, s[i])) IN Fl(RMul(d, d))]
    IN  IF count = 0 THEN NaN ELSE Fl(RDiv(FlSum(sqr, Len(s)), I(count)))

\* zscore(series) in floating point
zscore_float(s) ==
    LET var == FlVar(s)
    IN  IF IsNaN(var) \/ var = I(0)
        THEN [i \in 1..Len(s) |-> <<0, 1, 1>>]
        ELSE [i \in 1..Len(s) |-> DivBySurd(Fl(RSub(s[i], FlMean(s))), SqrtQ(var))]

\* industry_zscores(values, industries) in floating point
industry_zscores_float(index, values, industries) ==
    [t \in DOMAIN values |->
        LET members == SeqOf(index, {u \in DOMAIN values : industries[u] = industries[t]})
            x == [i \in 1..Len(members) |-> values[members[i]]]
            z == zscore_float([i \in 1..Len(x) |-> FillNa(x[i], FlMean(x))])
        IN  z[PosIn(members, t)]]

\* --- inputs: raw sub-scores that are floats of MantBits bits, or undefined --
FloatVals == {NaN} \cup {I(v) : v \in 1..(Pow2(MantBits) - 1)}

InitIndustryZFloat ==
    /\ EmptyDb
    /\ weights_cfg = NoWeights
    /\ pc = "call"
    /\ \E n \in 1..NumZTickers :
       LET T == {ZIndex[i] : i \in 1..n} IN
       \E v \in [T -> FloatVals] : \E ind \in [T -> ZIndustries] :
          args = [index |-> SubSeq(ZIndex, 1, n), values |-> v, industries |-> ind]
    /\ ret = <<>>

CallIndustryZscoresFloat ==
    /\ pc = "call"
    /\ ret' = industry_zscores_float(args.index, args.values, args.industries)
    /\ pc' = "return"
    /\ UNCHANGED <<args, dbvars>>

SpecIndustryZFloat == InitIndustryZFloat /\ [][CallIndustryZscoresFloat]_vars

====
